---- MODULE Spec2Model ----
(***************************************************************************)
(* A model of the KvK branch crawler: the identifier normalisation         *)
(* (main.py clean_kvk_number), the page classifier (scraper.py             *)
(* is_rate_limited / _check_company_size_impl), the proxy pool             *)
(* (proxy_manager.py ProxyManager), the retry loop of the fetcher          *)
(* (scraper.py check_company_size), the outcome store (database.py         *)
(* CompanyDB) and the batch driver (main.py create_big_company_database).  *)
(***************************************************************************)
EXTENDS Integers, Sequences, FiniteSets, TLC

VARIABLES
    work,            \* the rows of the input CSV, in order: [kvk_number, company_name]
    start_index,     \* --start-index, NoIndex when not given
    end_index,       \* --end-index, NoIndex when not given
    retry_failed,    \* --retry-failed
    retry_small,     \* --retry-small
    run,             \* number of the current invocation of the driver
    pc,              \* position of the driver: "next" in the loop, "done" after it
    idx,             \* enumerate() index into the sliced frame df
    current_index,   \* main.py current_index
    stats,           \* main.py stats
    stop_cause,      \* which outer handler ended the run
    emitted,         \* how often the statistics were logged in this run
    store,           \* companies table: kvk_number -> [company_name, has_branches]
    companies,       \* companies table: the set of its rows
    report,          \* how the last direct call of check_company_size ended
    session,         \* state of scraper.driver
    session_proxy,   \* the --proxy-server of scraper.driver, NoProxy when direct
    page,            \* what driver.page_source shows
    proxies,         \* ProxyManager.proxies
    last_update,     \* ProxyManager.last_update
    now,             \* minutes since the ProxyManager was constructed
    outcomes,        \* history: how each pass of the loop of that call ended
    call,            \* history: the number and the max_retries of that call
    written,         \* history: the store_result calls of a direct client of the store
    acquired,        \* history: the last get_proxy call of a direct client of the pool
    validation,      \* a call of _validate_proxies: its futures and its result
    phase2,          \* the tables of CompanyDetailsDB and the last process_company call
    drivers,         \* two driver processes on one store: the position of each
    batch,           \* run_batch_processing: its list, its position and its history
    cur,             \* history: the item being processed (or processed last)
    prev             \* history: the store and the stop index of the previous run

vars == <<work, start_index, end_index, retry_failed, retry_small, run, pc, idx,
          current_index, stats, stop_cause, emitted, store, companies, report,
          session,
          session_proxy, page, proxies, last_update, now, outcomes, call,
          written, acquired, validation, phase2, drivers, batch, cur, prev>>

------------------------------------------------------------------------------
(* Bounds of the model. *)

\* most store_result calls of a direct client of the store
MaxWrites == 3

\* most get_proxy calls of a direct client of the pool
MaxAcquires == 4

\* longest list of candidates given to _validate_proxies
MaxCandidates == 3

\* calls of run_batch_processing on the same databases
MaxBatches == 2
\* largest max_companies a batch is started with
MaxLimit == 2

\* most calls a client makes to the Phase 2 processor and its store
MaxProcessed == 3

\* longest work sequence
MaxItems == 2
\* invocations of the driver on the same store
MaxRuns == 2
\* distinct endpoints the proxy listing can offer
MaxProxies == 1
\* largest max_retries a direct caller of check_company_size passes
MaxAttempts == 3
\* direct calls of check_company_size on one fetcher
MaxCalls == 2
\* the clock stops here
MaxNow == 31

(* Program constants. *)

\* scraper.py: def check_company_size(..., max_retries=3)
DefaultMaxRetries == 3
\* proxy_manager.py: timedelta(minutes=30)
UpdateInterval == 30
\* main.py: f"{number:08d}" and len(cleaned) != 8
KvkWidth == 8
\* proxy_manager.py: ThreadPoolExecutor(max_workers=10)
MaxWorkers == 10

NoIndex == -1
NoProxy == 0
NoKvk == <<>>

------------------------------------------------------------------------------
(* Identifier normalisation: main.py clean_kvk_number.                       *)
(* A cell of the kvk_number column is [type, text]: type is the Python type  *)
(* pandas gave the cell, text its characters (for a float: its repr).        *)

Digits == <<"0", "1", "2", "3", "4", "5", "6", "7", "8", "9">>

IsDigit(c) == \E i \in 1..10 : Digits[i] = c

DigitVal(c) == (CHOOSE i \in 1..10 : Digits[i] = c) - 1

\* int(digits): the value of a non-empty string of decimal digits
RECURSIVE DigitsToInt(_)
DigitsToInt(ds) ==
    IF ds = <<>> THEN 0
    ELSE 10 * DigitsToInt(SubSeq(ds, 1, Len(ds) - 1)) + DigitVal(ds[Len(ds)])

\* str(number) for number >= 0
RECURSIVE IntToDigits(_)
IntToDigits(n) ==
    IF n < 10 THEN <<Digits[n + 1]>>
    ELSE Append(IntToDigits(n \div 10), Digits[(n % 10) + 1])

\* f"{number:08d}": zero-padded on the left to at least KvkWidth characters
RECURSIVE PadLeft(_)
PadLeft(ds) == IF Len(ds) >= KvkWidth THEN ds ELSE PadLeft(<<"0">> \o ds)

\* the number is formatted with no padding
Format08d_unpadded(n) == IntToDigits(n)

Format08d(n) == PadLeft(IntToDigits(n))

\* int(kvk) of a float, then str(): the repr up to the decimal point;
\* int(nan) raises ValueError
FloatIsNan(text) == text = <<"n", "a", "n">>

RECURSIVE IntPart(_)
IntPart(text) ==
    IF text = <<>> \/ Head(text) = "." THEN <<>>
    ELSE <<Head(text)>> \o IntPart(Tail(text))

\* re.sub(r'\D', '', kvk_str)
ExtractDigits(text) == SelectSeq(text, IsDigit)

\* a number of more than KvkWidth digits is cut to its last KvkWidth digits
clean_kvk_number_cut(kvk) ==
    IF kvk.type = "float" /\ FloatIsNan(kvk.text) THEN NoKvk
    ELSE LET kvk_str == IF kvk.type = "float" THEN IntPart(kvk.text) ELSE kvk.text
             digits  == ExtractDigits(kvk_str)
         IN  IF digits = <<>> THEN NoKvk
             ELSE LET cleaned == Format08d(DigitsToInt(digits))
                  IN  SubSeq(cleaned, Len(cleaned) - KvkWidth + 1, Len(cleaned))

clean_kvk_number(kvk) ==
    IF kvk.type = "float" /\ FloatIsNan(kvk.text) THEN NoKvk
    ELSE LET kvk_str == IF kvk.type = "float" THEN IntPart(kvk.text) ELSE kvk.text
             digits  == ExtractDigits(kvk_str)
         IN  IF digits = <<>> THEN NoKvk
             ELSE LET cleaned == Format08d(DigitsToInt(digits))
                  IN  IF Len(cleaned) # KvkWidth THEN NoKvk ELSE cleaned

Str(text) == [type |-> "str", text |-> text]
Float(text) == [type |-> "float", text |-> text]

\* the rows a work sequence is made of
RowA == [kvk_number |-> Str(<<"1","2","3","4","5","6","7","8">>), company_name |-> "A"]
RowB == [kvk_number |-> Str(<<"0","0","0","0","0","0","0","1">>), company_name |-> "B"]
\* nine digits: no identifier
RowBad == [kvk_number |-> Str(<<"8","1","2","3","4","5","6","7",".","0">>), company_name |-> "D"]

Rows == {RowA, RowB, RowBad}

\* the files of MaxItems rows
WorkSeqs == [1..MaxItems -> Rows]

------------------------------------------------------------------------------
(* The page classifier: scraper.py is_rate_limited and the classification   *)
(* part of _check_company_size_impl. A page is the features of its markup   *)
(* the two functions look at.                                                *)

Page(has_title, tmr, c429, oc, message, section, similar, table) ==
    [has_title |-> has_title,      \* a <title> element exists
     title_tmr |-> tmr,            \* 'too many requests' in title.lower()
     title_429 |-> c429,           \* '429' in the title
     title_oc  |-> oc,             \* 'opencorporates' in title.lower()
     message   |-> message,        \* div#message: "none", "plain", or "rate" (holds a phrase)
     section   |-> section,        \* div#data-table-branch_relationship_subject exists
     similar   |-> similar,        \* div.sidebar-item#similarly_named: "none", "plain", "branch"
     table     |-> table]          \* table.company-data-object: "none", "plain", "branch"

\* the message region is not looked at
is_rate_limited_title_only(html) ==
    html.has_title /\ (html.title_tmr \/ html.title_429)

is_rate_limited(html) ==
    \/ html.has_title /\ (html.title_tmr \/ html.title_429)
    \/ html.message = "rate"

\* only the branch-relationship region counts
has_branches_of_section_only(html) == html.section

has_branches_of(html) ==
    \/ html.section
    \/ html.similar = "branch"
    \/ html.table = "branch"

\* a page with no title is taken for a page with no branch indicator
classify_no_title_false(html) ==
    IF is_rate_limited(html) THEN "rate_limit"
    ELSE IF ~html.has_title THEN "false"
    ELSE IF ~html.title_oc THEN "rate_limit"
    ELSE IF has_branches_of(html) THEN "true"
    ELSE "false"

\* a page with no title is treated as a page with a foreign title
classify_no_title_rate_limit(html) ==
    IF is_rate_limited(html) THEN "rate_limit"
    ELSE IF ~html.has_title THEN "rate_limit"
    ELSE IF ~html.title_oc THEN "rate_limit"
    ELSE IF has_branches_of(html) THEN "true"
    ELSE "false"

\* what _check_company_size_impl does with a loaded page: "rate_limit" (it raises
\* RateLimitException), "none", "true" or "false" (it returns None, True, False)
classify(html) ==
    IF is_rate_limited(html) THEN "rate_limit"
    ELSE IF ~html.has_title THEN "none"
    ELSE IF ~html.title_oc THEN "rate_limit"
    ELSE IF has_branches_of(html) THEN "true"
    ELSE "false"

\* the pages the registry site serves in the crawl
PageBlank    == Page(FALSE, FALSE, FALSE, FALSE, "none", FALSE, "none", "none")
PageTooMany  == Page(TRUE, TRUE, TRUE, FALSE, "none", FALSE, "none", "none")
PageRedirect == Page(TRUE, FALSE, FALSE, FALSE, "none", FALSE, "none", "none")
PageBranches == Page(TRUE, FALSE, FALSE, TRUE, "none", TRUE, "none", "plain")
PagePlain    == Page(TRUE, FALSE, FALSE, TRUE, "plain", FALSE, "plain", "plain")

FetchPages == {PageBlank, PageTooMany, PageRedirect, PageBranches, PagePlain}

------------------------------------------------------------------------------
(* The proxy pool: proxy_manager.py ProxyManager. A pool is                  *)
(* [proxies, last_update]; times are minutes since its construction.        *)

Endpoints == 1..MaxProxies

\* how much time may pass before a call of get_proxy made at time t
Delays(t) == {d \in {0, UpdateInterval + 1} : t + d <= MaxNow}

\* the pool is refreshed already when the interval has just passed
needs_update_at_interval(pool, t) ==
    pool.proxies = {} \/ t - pool.last_update >= UpdateInterval

\* get_proxy: "if not self.proxies or (datetime.now() - self.last_update > self.update_interval)"
needs_update(pool, t) == pool.proxies = {} \/ t - pool.last_update > UpdateInterval

\* the validated proxies are added to the pool
update_proxy_list_merge(pool, t, valid) ==
    [proxies |-> pool.proxies \cup valid, last_update |-> t]

\* update_proxy_list: the validated proxies replace the pool, the time is recorded
update_proxy_list(pool, t, valid) == [proxies |-> valid, last_update |-> t]

\* get_proxy at time t, when a refresh would validate `valid` and random.choice
\* would take `pick`: the pool after the call and the proxy returned
get_proxy(pool, t, valid, pick) ==
    LET after == IF needs_update(pool, t) THEN update_proxy_list(pool, t, valid) ELSE pool
    IN  [proxies     |-> after.proxies,
         last_update |-> after.last_update,
         proxy       |-> IF after.proxies = {} THEN NoProxy ELSE pick]

\* every way a call of get_proxy made at time t or later can go:
\* [now, proxies, last_update, proxy]; random.choice takes a member of the pool
GetProxyRuns(pool, t) ==
    {[now         |-> t + r[1],
      proxies     |-> get_proxy(pool, t + r[1], r[2], r[3]).proxies,
      last_update |-> get_proxy(pool, t + r[1], r[2], r[3]).last_update,
      proxy       |-> get_proxy(pool, t + r[1], r[2], r[3]).proxy] :
        r \in {x \in Delays(t) \X (SUBSET Endpoints) \X Endpoints :
                  LET after == get_proxy(pool, t + x[1], x[2], x[3]).proxies
                  IN  after = {} \/ x[3] \in after}}

------------------------------------------------------------------------------
(* The fetcher: scraper.py CompanyScraper. The state of a call of            *)
(* check_company_size is a record of its locals (attempt, last_exception,    *)
(* max_retries), its result (report), the browser (session, session_proxy,   *)
(* page) and the proxy pool (proxies, last_update, now), with the history    *)
(* of its passes (outcomes).                                                 *)

FetchLabels == {"rate_limited", "redirected", "no_title", "true", "false",
                "fetch_error", "session_dead"}

\* the number of fetches (driver.get) of a call
RECURSIVE Fetches(_)
Fetches(os) ==
    IF os = <<>> THEN 0
    ELSE Fetches(Tail(os)) + (IF Head(os) \in FetchLabels THEN 1 ELSE 0)

\* the number of proxy acquisitions (get_proxy) of a call: one per pass after the first
Acquires(os) == IF Len(os) = 0 THEN 0 ELSE Len(os) - 1

\* every exception makes the loop go on
on_exception_all(exc) == "continue"

\* the except clauses of the loop: RateLimitException -> continue, Exception -> break
on_exception(exc) == IF exc = "rate_limit" THEN "continue" ELSE "break"

\* whatever exception was the last one is raised after the loop
after_loop_any(exc) == IF exc # "none" THEN "rate_limit" ELSE "none"

\* after the loop: "if isinstance(last_exception, RateLimitException): raise"
after_loop(exc) == IF exc = "rate_limit" THEN "rate_limit" ELSE "none"

\* the label of a loaded page in the history
FetchLabel(html) ==
    CASE classify(html) = "rate_limit" /\ is_rate_limited(html) -> "rate_limited"
      [] classify(html) = "rate_limit" /\ ~is_rate_limited(html) -> "redirected"
      [] classify(html) = "none" -> "no_title"
      [] OTHER -> classify(html)

\* the call check_company_size(company_name, kvk_number, m) on a fetcher whose
\* browser and pool are as in b
BeginCall(b, m) ==
    [attempt |-> 0, last_exception |-> "none", max_retries |-> m,
     report |-> "pending", outcomes |-> <<>>,
     session |-> b.session, session_proxy |-> b.session_proxy, page |-> b.page,
     proxies |-> b.proxies, last_update |-> b.last_update, now |-> b.now]

\* the loop makes one pass too many
InLoop_OffByOne(f) == f.report = "pending" /\ f.attempt <= f.max_retries

\* "for attempt in range(max_retries)": is there another pass
InLoop(f) == f.report = "pending" /\ f.attempt < f.max_retries

\* the endpoint of a pass that ended rate-limited is taken out of the pool
EndAttempt_drop_endpoint(f, res, label) ==
    LET g == [f EXCEPT !.outcomes = Append(@, label),
                       !.proxies = IF res = "rate_limit" THEN @ \ {f.session_proxy} ELSE @]
    IN  IF res \in {"rate_limit", "error"}
        THEN IF on_exception(res) = "continue"
             THEN [g EXCEPT !.last_exception = res, !.attempt = @ + 1]
             ELSE [g EXCEPT !.last_exception = res, !.report = after_loop(res)]
        ELSE [g EXCEPT !.report = res]

\* one pass of the loop body ended with res: "rate_limit" or "error" (an exception
\* reached the except clauses) or the value _check_company_size_impl returned
EndAttempt(f, res, label) ==
    LET g == [f EXCEPT !.outcomes = Append(@, label)]
    IN  IF res \in {"rate_limit", "error"}
        THEN IF on_exception(res) = "continue"
             THEN [g EXCEPT !.last_exception = res, !.attempt = @ + 1]
             ELSE [g EXCEPT !.last_exception = res, !.report = after_loop(res)]
        ELSE [g EXCEPT !.report = res]

\* the loop is left without a return or a break: the code after the loop
EndCall(f) ==
    IF f.report = "pending" THEN [f EXCEPT !.report = after_loop(f.last_exception)]
    ELSE f

\* _check_company_size_impl: driver.get, then the classification of page_source.
\* An exception of driver.get is caught inside and None is returned: one that says
\* 'invalid session id' leaves the session dead, after any other a live browser may
\* show any page. A driver that was quit raises on every command.
check_company_size_impl(f) ==
    (IF f.session \in {"live", "dead"}
     THEN {EndAttempt([f EXCEPT !.session = "dead"], "none", "session_dead")}
     ELSE {})
    \cup
    (IF f.session = "live"
     THEN {EndAttempt([f EXCEPT !.page = html], "none", "fetch_error") : html \in FetchPages}
          \cup
          {EndAttempt([f EXCEPT !.page = html], classify(html), FetchLabel(html)) :
              html \in FetchPages}
     ELSE {})
    \cup
    (IF f.session = "quit"
     THEN {EndAttempt(f, "none", "fetch_error")}
     ELSE {})

\* setup_browser(proxy): the old driver is quit, then webdriver.Chrome either gives
\* a fresh session bound to the proxy or raises
setup_browser(f, proxy) ==
    {[ok |-> TRUE,
      f  |-> [f EXCEPT !.session = "live", !.session_proxy = proxy, !.page = PageBlank]],
     [ok |-> FALSE,
      f  |-> [f EXCEPT !.session = "quit"]]}

\* one pass of the loop: every state it can end in
Attempt(f) ==
    IF f.attempt = 0 THEN check_company_size_impl(f)
    ELSE UNION {
        LET g == [f EXCEPT !.now = got.now, !.proxies = got.proxies,
                           !.last_update = got.last_update]
        IN  IF got.proxy = NoProxy
            THEN \* raise RateLimitException("No working proxies available")
                 {EndAttempt(g, "rate_limit", "no_proxy")}
            ELSE UNION {IF sb.ok THEN check_company_size_impl(sb.f)
                        ELSE {EndAttempt(sb.f, "error", "setup_failed")} :
                           sb \in setup_browser(g, got.proxy)} :
        got \in {r \in GetProxyRuns([proxies |-> f.proxies, last_update |-> f.last_update],
                                    f.now) :
                    r.proxy = NoProxy \/ r.proxy \in r.proxies}}

\* check_company_size: every state a call that is in state f can end in
RECURSIVE check_company_size(_)
check_company_size(f) ==
    IF InLoop(f) THEN UNION {check_company_size(g) : g \in Attempt(f)}
    ELSE {EndCall(f)}

\* the browser and the pool, as a call finds them
Fetcher ==
    [session |-> session, session_proxy |-> session_proxy, page |-> page,
     proxies |-> proxies, last_update |-> last_update, now |-> now]

Params == <<work, start_index, end_index, retry_failed, retry_small, run>>
Browser == <<session, session_proxy, page>>
Pool == <<proxies, last_update, now>>
Clients == <<acquired, validation, phase2, drivers, batch>>
Direct == <<report, outcomes, call, written, Clients>>
Batch == <<pc, idx, current_index, stats, stop_cause, emitted, store, companies, cur,
           prev>>

\* a caller other than the batch driver calls check_company_size with any
\* max_retries, and the call runs to its end
DirectCall ==
    /\ pc = "direct"
    /\ call.n < MaxCalls
    /\ \E m \in 0..MaxAttempts :
         \E f \in check_company_size(BeginCall(Fetcher, m)) :
            /\ call' = [n |-> call.n + 1, max_retries |-> m]
            /\ report' = f.report
            /\ outcomes' = f.outcomes
            /\ session' = f.session
            /\ session_proxy' = f.session_proxy
            /\ page' = f.page
            /\ proxies' = f.proxies
            /\ last_update' = f.last_update
            /\ now' = f.now
    /\ UNCHANGED <<Params, Batch, written, Clients>>

------
(* The outcome store: database.py CompanyDB.                                 *)

has_been_checked(kvk) == kvk \in DOMAIN store

is_failed_result(kvk) == kvk \in DOMAIN store /\ store[kvk].has_branches = -1

is_no_branches_result(kvk) == kvk \in DOMAIN store /\ store[kvk].has_branches = 0

\* INSERT OR REPLACE INTO companies
store_result(company_name, kvk, has_branches) ==
    [k \in DOMAIN store \cup {kvk} |->
        IF k = kvk THEN [company_name |-> company_name, has_branches |-> has_branches]
        ELSE store[k]]

\* the primary key is dropped: the row is added to whatever the table holds
insert_plain(company_name, kvk, has_branches) ==
    companies \cup {[company_name |-> company_name, kvk_number |-> kvk,
                      has_branches |-> has_branches]}

\* INSERT OR REPLACE on the table with PRIMARY KEY kvk_number: the rows that
\* conflict on the key are deleted, then the row is inserted
insert_or_replace(company_name, kvk, has_branches) ==
    {r \in companies : r.kvk_number # kvk}
        \cup {[company_name |-> company_name, kvk_number |-> kvk,
                has_branches |-> has_branches]}

\* the table that holds the rows of the keyed view st
TableOf(st) ==
    {[company_name |-> st[k].company_name, kvk_number |-> k,
      has_branches |-> st[k].has_branches] : k \in DOMAIN st}

\* the row of kvk, for the history
RowOf(st, kvk) ==
    IF kvk \in DOMAIN st
    THEN [present |-> TRUE, company_name |-> st[kvk].company_name,
          has_branches |-> st[kvk].has_branches]
    ELSE [present |-> FALSE, company_name |-> "", has_branches |-> -1]

EmptyStore == [k \in {} |-> [company_name |-> "", has_branches |-> -1]]

------------------------------------------------------------------------------
(* The batch driver: main.py create_big_company_database.                    *)

Min(a, b) == IF a < b THEN a ELSE b

\* the bounds are ignored
SliceRows_whole(w, s, e) == w

\* the end index is taken as inclusive
SliceRows_inclusive(w, s, e) ==
    IF s = NoIndex /\ e = NoIndex THEN w
    ELSE LET start == IF s # NoIndex THEN s ELSE 0
             end   == IF e # NoIndex THEN e + 1 ELSE Len(w)
             lo    == Min(start, Len(w))
             hi    == Min(end, Len(w))
         IN  IF lo >= hi THEN <<>> ELSE SubSeq(w, lo + 1, hi)

\* df.iloc[start:end] of the rows read from the file
SliceRows(w, s, e) ==
    IF s = NoIndex /\ e = NoIndex THEN w
    ELSE LET start == IF s # NoIndex THEN s ELSE 0
             end   == IF e # NoIndex THEN e ELSE Len(w)
             lo    == Min(start, Len(w))
             hi    == Min(end, Len(w))
         IN  IF lo >= hi THEN <<>> ELSE SubSeq(w, lo + 1, hi)

df == SliceRows(work, start_index, end_index)

\* the end index is taken for the start index
Offset_end == IF end_index # NoIndex THEN end_index ELSE 0

\* "start if start_index is not None else 0"
Offset == IF start_index # NoIndex THEN start_index ELSE 0

NewStats(total) ==
    [total |-> total, skipped_invalid_kvk |-> 0, skipped_already_checked |-> 0,
     none_results |-> 0, stored_true |-> 0, stored_false |-> 0]

Bump(s, key) == [s EXCEPT ![key] = @ + 1]

\* a set flag retries whatever is stored
should_retry_any(kvk) == retry_failed \/ retry_small

\* the skip check: "should_retry = (retry_failed and db.is_failed_result(kvk)) or
\* (retry_small and db.is_no_branches_result(kvk))"
should_retry(kvk) ==
    \/ retry_failed /\ is_failed_result(kvk)
    \/ retry_small /\ is_no_branches_result(kvk)

\* nothing is skipped
skips_never(kvk) == FALSE

\* "if db.has_been_checked(kvk): ... if should_retry ... else ... continue"
skips(kvk) == has_been_checked(kvk) /\ ~should_retry(kvk)

\* None is stored like False
stored_value_none_as_false(result) == IF result = "true" THEN 1 ELSE 0

\* what is stored for a result of check_company_size: True, False, or -1 for None
stored_value(result) ==
    CASE result = "true" -> 1
      [] result = "false" -> 0
      [] OTHER -> -1

\* True and False are counted in each other's counter
counter_of_swapped(result) ==
    CASE result = "true" -> "stored_false"
      [] result = "false" -> "stored_true"
      [] OTHER -> "none_results"

\* the counter a result is counted in
counter_of(result) ==
    CASE result = "true" -> "stored_true"
      [] result = "false" -> "stored_false"
      [] OTHER -> "none_results"

\* only the session error is raised again
reraised_session_only(exc) == exc = "session"

\* only the RateLimitException is raised again
reraised_rate_limit_only(exc) == exc = "rate_limit"

\* every exception is raised again
reraised_all(exc) == TRUE

\* the inner handlers: a RateLimitException and an exception whose text holds
\* 'invalid session id' are raised again and end the run, any other exception is
\* recorded as a failed item
reraised(exc) == exc \in {"rate_limit", "session"}

\* the history of one pass of the loop: the row and its index, the identifier, the
\* store and the counters as the pass found them, what check_company_size gave
\* (report, fetched), the exception raised inside the inner try block, the values
\* written to the store, and how the pass ended
NewItem(row, kvk) ==
    [index   |-> idx + Offset,
     idx     |-> idx,
     row     |-> row,
     kvk     |-> kvk,
     pre     |-> RowOf(store, kvk),
     store   |-> store,
     stats   |-> stats,
     report  |-> "no_call",
     fetched |-> FALSE,
     raised  |-> "none",
     writes  |-> <<>>,
     end     |-> "begun",
     run     |-> run]

NoItem ==
    [index |-> NoIndex, idx |-> NoIndex, row |-> RowBad, kvk |-> NoKvk,
     pre |-> RowOf(EmptyStore, NoKvk), store |-> EmptyStore, stats |-> NewStats(0),
     report |-> "no_call", fetched |-> FALSE, raised |-> "none", writes |-> <<>>,
     end |-> "no_item", run |-> 0]

\* the item is finished and the loop goes on
Continue(item, how) ==
    /\ cur' = [item EXCEPT !.end = how]
    /\ idx' = idx + 1
    /\ pc' = "next"
    /\ stop_cause' = stop_cause
    /\ emitted' = emitted

\* the exception is swallowed and the loop takes the same row again
Leave_retry_item(item, how, cause) ==
    /\ cur' = [item EXCEPT !.end = how]
    /\ idx' = idx
    /\ pc' = "next"
    /\ stop_cause' = stop_cause
    /\ emitted' = emitted

\* the statistics are logged only when the loop ends normally
Leave_no_finally(item, how, cause) ==
    /\ cur' = [item EXCEPT !.end = how]
    /\ idx' = idx
    /\ pc' = "done"
    /\ stop_cause' = cause
    /\ emitted' = emitted

\* an exception leaves the loop: the outer handlers, then the finally block, which
\* logs the statistics
Leave(item, how, cause) ==
    /\ cur' = [item EXCEPT !.end = how]
    /\ idx' = idx
    /\ pc' = "done"
    /\ stop_cause' = cause
    /\ emitted' = emitted + 1

\* the rows are taken from the end of the frame
ThisRow_reversed == df[Len(df) - idx]

\* the row of this pass of the loop
ThisRow == df[idx + 1]

\* "if kvk is None: stats['skipped_invalid_kvk'] += 1 ... continue"
SkipInvalid ==
    /\ pc = "next" /\ idx < Len(df)
    /\ clean_kvk_number(ThisRow.kvk_number) = NoKvk
    /\ current_index' = idx + Offset
    /\ stats' = Bump(stats, "skipped_invalid_kvk")
    /\ Continue(NewItem(ThisRow, NoKvk), "invalid")
    /\ UNCHANGED <<Params, store, companies, Direct, Browser, Pool, prev>>

\* the item is already in the store and no retry flag applies to it
SkipChecked ==
    /\ pc = "next" /\ idx < Len(df)
    /\ LET kvk == clean_kvk_number(ThisRow.kvk_number)
       IN  /\ kvk # NoKvk
           /\ skips(kvk)
           /\ stats' = Bump(stats, "skipped_already_checked")
           /\ Continue(NewItem(ThisRow, kvk), "skipped")
    /\ current_index' = idx + Offset
    /\ UNCHANGED <<Params, store, companies, Direct, Browser, Pool, prev>>

\* a read of the store (has_been_checked, is_failed_result, is_no_branches_result)
\* raises: the reads are outside the inner try block, so the exception leaves the loop
ReadError ==
    /\ pc = "next" /\ idx < Len(df)
    /\ LET kvk == clean_kvk_number(ThisRow.kvk_number)
       IN  /\ kvk # NoKvk
           /\ Leave(NewItem(ThisRow, kvk), "read_error", "fatal")
    /\ current_index' = idx + Offset
    /\ UNCHANGED <<Params, stats, store, companies, Direct, Browser, Pool, prev>>

\* what the driver can see of a call that ended in state f: its result, whether it
\* fetched, and the browser and the pool it leaves
Returned(f) ==
    [report |-> f.report, fetched |-> Fetches(f.outcomes) > 0,
     session |-> f.session, session_proxy |-> f.session_proxy, page |-> f.page,
     proxies |-> f.proxies, last_update |-> f.last_update, now |-> f.now]

\* the item of the call that ended in state f
Item(f) ==
    [NewItem(ThisRow, clean_kvk_number(ThisRow.kvk_number)) EXCEPT
        !.report = f.report, !.fetched = f.fetched]

\* the item is recorded as failed before its exception is raised again
Raised_failed_first(item, exc, st) ==
    LET it == [item EXCEPT !.raised = exc]
    IN  \/ /\ reraised(exc)
           /\ stats' = st
           /\ store' = store_result(item.row.company_name, item.kvk, -1)
           /\ companies' = insert_or_replace(item.row.company_name, item.kvk, -1)
           /\ Leave(it, "stopped", exc)
        \/ /\ ~reraised(exc)
           /\ stats' = Bump(st, "none_results")
           /\ \/ /\ store' = store_result(item.row.company_name, item.kvk, -1)
                 /\ companies' = insert_or_replace(item.row.company_name, item.kvk, -1)
                 /\ Continue([it EXCEPT !.writes = Append(@, -1)], "failed")
              \/ /\ store' = store /\ companies' = companies
                 /\ Leave(it, "write_error", "fatal")

\* an exception exc is raised inside the inner try block, with the counters at st:
\* it is raised again, or the item is recorded as failed; the write of the failed
\* result is itself outside any inner handler
Raised(item, exc, st) ==
    LET it == [item EXCEPT !.raised = exc]
    IN  \/ /\ reraised(exc)
           /\ stats' = st
           /\ store' = store /\ companies' = companies
           /\ Leave(it, "stopped", exc)
        \/ /\ ~reraised(exc)
           /\ stats' = Bump(st, "none_results")
           /\ \/ /\ store' = store_result(item.row.company_name, item.kvk, -1)
                 /\ companies' = insert_or_replace(item.row.company_name, item.kvk, -1)
                 /\ Continue([it EXCEPT !.writes = Append(@, -1)], "failed")
              \/ /\ store' = store /\ companies' = companies
                 /\ Leave(it, "write_error", "fatal")

\* check_company_size raised RateLimitException
HandleRateLimit(f) ==
    /\ f.report = "rate_limit"
    /\ session' = f.session
    /\ Raised(Item(f), "rate_limit", stats)

\* check_company_size returned and scraper.driver.page_source raises: on a dead
\* session with 'invalid session id', on a driver that was quit with that or
\* with another error; a live session may die now
PageSourceRaises(f) ==
    /\ f.report # "rate_limit"
    /\ \/ /\ f.session \in {"live", "dead"}
          /\ session' = "dead"
          /\ Raised(Item(f), "session", stats)
       \/ /\ f.session = "quit"
          /\ session' = f.session
          /\ \E exc \in {"session", "other"} : Raised(Item(f), exc, stats)

\* check_company_size returned and the page the session shows is rate-limited:
\* "raise RateLimitException("Rate limit detected in final validation")"
FinalCheckRateLimit(f) ==
    /\ f.report # "rate_limit"
    /\ f.session = "live"
    /\ is_rate_limited(f.page)
    /\ session' = f.session
    /\ Raised(Item(f), "rate_limit", stats)

\* check_company_size returned, the final check passed: the result is counted and
\* stored; a store write that raises is handled by "except Exception"
StoreOutcome(f) ==
    /\ f.report # "rate_limit"
    /\ f.session = "live"
    /\ ~is_rate_limited(f.page)
    /\ session' = f.session
    /\ LET counted == Bump(stats, counter_of(f.report))
       IN  \/ /\ stats' = counted
              /\ store' = store_result(ThisRow.company_name, Item(f).kvk,
                                       stored_value(f.report))
              /\ companies' = insert_or_replace(ThisRow.company_name, Item(f).kvk,
                                                 stored_value(f.report))
              /\ Continue([Item(f) EXCEPT !.writes = Append(@, stored_value(f.report))],
                          IF f.report = "none" THEN "failed" ELSE "stored")
           \/ Raised(Item(f), "other", counted)

\* the item is new, or a retry flag applies to it: check_company_size is called,
\* runs to its end, and the driver deals with what it gave
ProcessItem ==
    /\ pc = "next" /\ idx < Len(df)
    /\ clean_kvk_number(ThisRow.kvk_number) # NoKvk
    /\ ~skips(clean_kvk_number(ThisRow.kvk_number))
    /\ current_index' = idx + Offset
    /\ \E f \in {Returned(g) : g \in check_company_size(BeginCall(Fetcher, DefaultMaxRetries))} :
         /\ UNCHANGED Direct
         /\ session_proxy' = f.session_proxy
         /\ page' = f.page
         /\ proxies' = f.proxies
         /\ last_update' = f.last_update
         /\ now' = f.now
         /\ \/ HandleRateLimit(f)
            \/ PageSourceRaises(f)
            \/ FinalCheckRateLimit(f)
            \/ StoreOutcome(f)
    /\ UNCHANGED <<Params, prev>>

\* the rows are used up: the finally block logs the statistics
EndLoop ==
    /\ pc = "next" /\ idx = Len(df)
    /\ pc' = "done"
    /\ emitted' = emitted + 1
    /\ UNCHANGED <<Params, idx, current_index, stats, stop_cause, store, companies,
                   Direct, Browser, Pool, cur, prev>>

\* the identifiers of the rows of w
KvksOf(w) == {clean_kvk_number(w[i].kvk_number) : i \in 1..Len(w)} \ {NoKvk}

\* the name earlier runs stored an identifier of w under: that of its first row
NameIn(w, kvk) ==
    w[CHOOSE i \in 1..Len(w) :
        /\ clean_kvk_number(w[i].kvk_number) = kvk
        /\ \A j \in 1..(i - 1) : clean_kvk_number(w[j].kvk_number) # kvk].company_name

\* the stores earlier runs over w can have left: any identifiers of w, each with
\* any of the three outcomes
StoresOf(w) ==
    UNION {{[k \in ks |-> [company_name |-> NameIn(w, k), has_branches |-> v[k]]] :
               v \in [ks -> {-1, 0, 1}]} : ks \in SUBSET KvksOf(w)}

NoCall == [n |-> 0, max_retries |-> 0]

\* no direct client has called get_proxy, _validate_proxies or process_company
NoAcquire ==
    [n |-> 0, at |-> 0, before |-> [proxies |-> {}, last_update |-> 0],
     updated |-> FALSE, valid |-> {}, proxy |-> NoProxy]

NoValidation == [probe |-> <<>>, stage |-> <<>>, valid_proxies |-> <<>>, returned |-> FALSE]

NoPhase2 ==
    [company_details |-> {}, failed_attempts |-> {}, calls |-> 0,
     kvk |-> NoKvk, response |-> "no_call", was_processed |-> FALSE, result |-> FALSE]

\* max_companies=None
NoLimit == NoIndex

\* no call of run_batch_processing was made
NoBatch ==
    [n |-> 0, max_companies |-> NoLimit, unprocessed_companies |-> <<>>, idx |-> 0,
     attempted |-> <<>>, running |-> FALSE]

\* the driver processes that share a store
Procs == {1, 2}

\* each process is at the head of its loop, before its first row
NoDrivers == [p \in Procs |-> [pc |-> "check", idx |-> 0]]

NoClients ==
    /\ acquired = NoAcquire /\ validation = NoValidation /\ phase2 = NoPhase2
    /\ drivers = NoDrivers
    /\ batch = NoBatch

NoPrev == [store |-> EmptyStore, stop |-> NoIndex]

\* create_big_company_database up to the loop: the frame is sliced, a scraper with
\* a direct session and an empty proxy pool is constructed, the counters are zero
Invoke(w, s, e, rf, rs, r, st, pv) ==
    /\ work = w /\ start_index = s /\ end_index = e
    /\ retry_failed = rf /\ retry_small = rs /\ run = r
    /\ pc = "next" /\ idx = 0
    /\ current_index = (IF s # NoIndex THEN s ELSE 0)
    /\ stats = NewStats(Len(SliceRows(w, s, e)))
    /\ stop_cause = "none" /\ emitted = 0
    /\ store = st /\ companies = TableOf(st)
    /\ report = "pending" /\ outcomes = <<>> /\ call = NoCall /\ written = <<>>
    /\ NoClients
    /\ session = "live" /\ session_proxy = NoProxy /\ page = PageBlank
    /\ proxies = {} /\ last_update = 0 /\ now = 0
    /\ cur = NoItem
    /\ prev = pv

\* a run over any file, with any flags, on a store earlier runs have left
Init ==
    \E w \in WorkSeqs, rf \in BOOLEAN, rs \in BOOLEAN :
        \E st \in StoresOf(w) :
            Invoke(w, NoIndex, NoIndex, rf, rs, 1, st, NoPrev)

Next ==
    \/ SkipInvalid
    \/ SkipChecked
    \/ ReadError
    \/ ProcessItem
    \/ EndLoop

Spec == Init /\ [][Next]_vars

\* the values --start-index and --end-index take
IndexBounds == {NoIndex} \cup 0..MaxItems

\* a run over a part of any file, with any index bounds, on a store earlier runs
\* have left
InitBounds ==
    \E w \in WorkSeqs, s \in IndexBounds, e \in IndexBounds :
        \E st \in StoresOf(w) :
            Invoke(w, s, e, FALSE, FALSE, 1, st, NoPrev)

SpecBounds == InitBounds /\ [][Next]_vars

------------------------------------------------------------------------------
(* Resuming: a run that a stop signal ended is followed by a run on the same *)
(* file and the same store that starts at the index the first one logged.    *)

\* "To resume, use: --start-index {current_index}": the program is invoked again
Rerun ==
    /\ pc = "done" /\ run < MaxRuns
    /\ stop_cause \in {"rate_limit", "session"}
    /\ \E rf \in BOOLEAN, rs \in BOOLEAN :
         /\ retry_failed' = rf
         /\ retry_small' = rs
    /\ start_index' = current_index
    /\ end_index' = NoIndex
    /\ run' = run + 1
    /\ pc' = "next"
    /\ idx' = 0
    /\ stats' = NewStats(Len(SliceRows(work, current_index, NoIndex)))
    /\ stop_cause' = "none"
    /\ emitted' = 0
    /\ session' = "live" /\ session_proxy' = NoProxy /\ page' = PageBlank
    /\ proxies' = {} /\ last_update' = 0 /\ now' = 0
    /\ cur' = NoItem
    /\ prev' = [store |-> store, stop |-> current_index]
    /\ UNCHANGED <<work, current_index, store, companies, Direct>>

\* the first run starts on an empty store
InitResume ==
    \E w \in WorkSeqs, rf \in BOOLEAN, rs \in BOOLEAN :
        Invoke(w, NoIndex, NoIndex, rf, rs, 1, EmptyStore, NoPrev)

NextResume ==
    \/ SkipInvalid
    \/ SkipChecked
    \/ ReadError
    \/ ProcessItem
    \/ EndLoop
    \/ Rerun

SpecResume == InitResume /\ [][NextResume]_vars

------------------------------------------------------------------------------
(* Direct calls of check_company_size on one fetcher.                        *)

InitFetcher ==
    /\ work = <<>> /\ start_index = NoIndex /\ end_index = NoIndex
    /\ retry_failed = FALSE /\ retry_small = FALSE /\ run = 0
    /\ pc = "direct" /\ idx = 0 /\ current_index = 0
    /\ stats = NewStats(0)
    /\ stop_cause = "none" /\ emitted = 0
    /\ store = EmptyStore /\ companies = {}
    /\ report = "pending" /\ outcomes = <<>> /\ call = NoCall /\ written = <<>>
    /\ NoClients
    /\ session = "live" /\ session_proxy = NoProxy /\ page = PageBlank
    /\ proxies = {} /\ last_update = 0 /\ now = 0
    /\ cur = NoItem
    /\ prev = NoPrev

NextFetcher == DirectCall

SpecFetcher == InitFetcher /\ [][NextFetcher]_vars

------------------------------------------------------------------------------
(* Direct calls of get_proxy on one ProxyManager.                            *)

\* how much time may pass before a call of get_proxy made at time t
PoolDelays(t) == {d \in {0, 1, UpdateInterval, UpdateInterval + 1} : t + d <= MaxNow}

\* one call of get_proxy, some time after the last one; a refresh validates any
\* set of endpoints and random.choice takes any member of the pool
Acquire ==
    /\ pc = "pool"
    /\ acquired.n < MaxAcquires
    /\ \E d \in PoolDelays(now), valid \in SUBSET Endpoints, pick \in Endpoints :
         LET before == [proxies |-> proxies, last_update |-> last_update]
             got == get_proxy(before, now + d, valid, pick)
             updated == needs_update(before, now + d)
         IN  /\ got.proxies = {} \/ pick \in got.proxies
             /\ now' = now + d
             /\ proxies' = got.proxies
             /\ last_update' = got.last_update
             /\ acquired' = [n |-> acquired.n + 1, at |-> now + d, before |-> before,
                             updated |-> updated,
                             valid |-> IF updated THEN valid ELSE {},
                             proxy |-> got.proxy]
    /\ UNCHANGED <<Params, Batch, Browser, report, outcomes, call, written, validation,
                   phase2, drivers, batch>>

\* ProxyManager(): an empty pool, last_update is the time of construction
InitPool ==
    /\ work = <<>> /\ start_index = NoIndex /\ end_index = NoIndex
    /\ retry_failed = FALSE /\ retry_small = FALSE /\ run = 0
    /\ pc = "pool" /\ idx = 0 /\ current_index = 0
    /\ stats = NewStats(0)
    /\ stop_cause = "none" /\ emitted = 0
    /\ store = EmptyStore /\ companies = {}
    /\ report = "pending" /\ outcomes = <<>> /\ call = NoCall /\ written = <<>>
    /\ NoClients
    /\ session = "live" /\ session_proxy = NoProxy /\ page = PageBlank
    /\ proxies = {} /\ last_update = 0 /\ now = 0
    /\ cur = NoItem
    /\ prev = NoPrev

NextPool == Acquire

SpecPool == InitPool /\ [][NextPool]_vars

------------------------------------------------------------------------------
(* One call of _validate_proxies: the candidates are 1..n, each submitted as *)
(* a future to the pool of worker threads; the calling thread takes the      *)
(* futures as they complete.                                                 *)

\* how the probe of a candidate ends: status 200, another status, an exception
\* (a connection error or the timeout)
ProbeOutcomes == {"ok", "status", "error"}

\* every response counts as a working proxy
test_proxy_any_response(proxy, outcome) == IF outcome \in {"ok", "status"} THEN proxy ELSE NoProxy

\* test_proxy: the proxy if the probe returned status 200, None otherwise
test_proxy(proxy, outcome) == IF outcome = "ok" THEN proxy ELSE NoProxy

Candidates == DOMAIN validation.stage

Running == {i \in Candidates : validation.stage[i] = "running"}

\* there is a worker thread for every future
worker_free_always == TRUE

\* ThreadPoolExecutor(max_workers=10): a thread of the pool is idle or can be made
worker_free == Cardinality(Running) < MaxWorkers

\* a worker thread takes the submitted future that waits longest in the work
\* queue of the executor
StartProbe ==
    /\ pc = "validate"
    /\ worker_free
    /\ \E i \in Candidates :
         /\ validation.stage[i] = "submitted"
         /\ \A j \in 1..(i - 1) : validation.stage[j] # "submitted"
         /\ validation' = [validation EXCEPT !.stage[i] = "running"]
    /\ UNCHANGED <<Params, Batch, Browser, Pool, report, outcomes, call, written,
                   acquired, phase2, drivers, batch>>

\* the probe of a running future ends, in any order
FinishProbe ==
    /\ pc = "validate"
    /\ \E i \in Candidates :
         /\ validation.stage[i] = "running"
         /\ validation' = [validation EXCEPT !.stage[i] = "finished"]
    /\ UNCHANGED <<Params, Batch, Browser, Pool, report, outcomes, call, written,
                   acquired, phase2, drivers, batch>>

\* as_completed yields a finished future to the calling thread:
\* "if future.result(): valid_proxies.append(future.result())"
Collect ==
    /\ pc = "validate"
    /\ \E i \in Candidates :
         /\ validation.stage[i] = "finished"
         /\ LET result == test_proxy(i, validation.probe[i])
            IN  validation' =
                    [validation EXCEPT
                        !.stage[i] = "yielded",
                        !.valid_proxies = IF result # NoProxy THEN Append(@, result) ELSE @]
    /\ UNCHANGED <<Params, Batch, Browser, Pool, report, outcomes, call, written,
                   acquired, phase2, drivers, batch>>

\* every future was yielded: "return valid_proxies"
ReturnValid ==
    /\ pc = "validate"
    /\ \A i \in Candidates : validation.stage[i] = "yielded"
    /\ pc' = "validated"
    /\ validation' = [validation EXCEPT !.returned = TRUE]
    /\ UNCHANGED <<Params, idx, current_index, stats, stop_cause, emitted, store,
                   companies, cur, prev, Browser, Pool, report, outcomes, call, written,
                   acquired, phase2, drivers, batch>>

\* _validate_proxies is called with any list of distinct candidates, whose probes
\* end in any way
InitValidate ==
    /\ work = <<>> /\ start_index = NoIndex /\ end_index = NoIndex
    /\ retry_failed = FALSE /\ retry_small = FALSE /\ run = 0
    /\ pc = "validate" /\ idx = 0 /\ current_index = 0
    /\ stats = NewStats(0)
    /\ stop_cause = "none" /\ emitted = 0
    /\ store = EmptyStore /\ companies = {}
    /\ report = "pending" /\ outcomes = <<>> /\ call = NoCall /\ written = <<>>
    /\ acquired = NoAcquire /\ phase2 = NoPhase2 /\ drivers = NoDrivers /\ batch = NoBatch
    /\ \E n \in 0..MaxCandidates :
         \E probe \in [1..n -> ProbeOutcomes] :
            validation = [probe |-> probe, stage |-> [i \in 1..n |-> "submitted"],
                          valid_proxies |-> <<>>, returned |-> FALSE]
    /\ session = "live" /\ session_proxy = NoProxy /\ page = PageBlank
    /\ proxies = {} /\ last_update = 0 /\ now = 0
    /\ cur = NoItem
    /\ prev = NoPrev

NextValidate ==
    \/ StartProbe
    \/ FinishProbe
    \/ Collect
    \/ ReturnValid

SpecValidate == InitValidate /\ [][NextValidate]_vars

------------------------------------------------------------------------------
(* One refresh inside get_proxy: _fetch_free_proxies gave more candidates    *)
(* than there are worker threads; _validate_proxies runs as above, then      *)
(* update_proxy_list replaces the pool and get_proxy returns.                *)

\* "self.proxies = valid_proxies; self.last_update = datetime.now()", then
\* "return random.choice(self.proxies) if self.proxies else None"
ReplacePool ==
    /\ pc = "validated"
    /\ pc' = "refreshed"
    /\ \E d \in {0, 1} :
         LET valid == {validation.valid_proxies[j] : j \in 1..Len(validation.valid_proxies)}
             after == update_proxy_list([proxies |-> proxies, last_update |-> last_update],
                                        now + d, valid)
         IN  /\ now' = now + d
             /\ proxies' = after.proxies
             /\ last_update' = after.last_update
             /\ \E pick \in after.proxies \cup {NoProxy} :
                  /\ pick = NoProxy <=> after.proxies = {}
                  /\ acquired' = [n |-> acquired.n + 1, at |-> now + d,
                                  before |-> [proxies |-> proxies, last_update |-> last_update],
                                  updated |-> TRUE, valid |-> valid, proxy |-> pick]
    /\ UNCHANGED <<Params, idx, current_index, stats, stop_cause, emitted, store,
                   companies, cur, prev, Browser, report, outcomes, call, written,
                   validation, phase2, drivers, batch>>

\* get_proxy on an empty pool has fetched MaxWorkers + 1 candidates; the probes of
\* any of the first MaxProxies succeed, the other probes raise or time out
InitRefresh ==
    /\ work = <<>> /\ start_index = NoIndex /\ end_index = NoIndex
    /\ retry_failed = FALSE /\ retry_small = FALSE /\ run = 0
    /\ pc = "validate" /\ idx = 0 /\ current_index = 0
    /\ stats = NewStats(0)
    /\ stop_cause = "none" /\ emitted = 0
    /\ store = EmptyStore /\ companies = {}
    /\ report = "pending" /\ outcomes = <<>> /\ call = NoCall /\ written = <<>>
    /\ acquired = NoAcquire /\ phase2 = NoPhase2 /\ drivers = NoDrivers /\ batch = NoBatch
    /\ \E ok \in SUBSET Endpoints :
         validation = [probe |-> [i \in 1..(MaxWorkers + 1) |->
                                     IF i \in ok THEN "ok" ELSE "error"],
                       stage |-> [i \in 1..(MaxWorkers + 1) |-> "submitted"],
                       valid_proxies |-> <<>>, returned |-> FALSE]
    /\ session = "live" /\ session_proxy = NoProxy /\ page = PageBlank
    /\ proxies = {} /\ last_update = 0 /\ now = 0
    /\ cur = NoItem
    /\ prev = NoPrev

NextRefresh ==
    \/ StartProbe
    \/ FinishProbe
    \/ Collect
    \/ ReturnValid
    \/ ReplacePool

SpecRefresh == InitRefresh /\ [][NextRefresh]_vars

------------------------------------------------------------------------------
(* _check_company_size_impl on one loaded page.                              *)

\* every page: any title or none, any message region, any branch evidence
AllPages ==
    {Page(t.has, t.tmr, t.c429, t.oc, m, sec, sim, tab) :
        t \in {x \in [has : BOOLEAN, tmr : BOOLEAN, c429 : BOOLEAN, oc : BOOLEAN] :
                  ~x.has => (~x.tmr /\ ~x.c429 /\ ~x.oc)},
        m \in {"none", "plain", "rate"},
        sec \in BOOLEAN,
        sim \in {"none", "plain", "branch"},
        tab \in {"none", "plain", "branch"}}

\* the page source is classified
Classify ==
    /\ pc = "classify"
    /\ pc' = "classified"
    /\ report' = classify(page)
    /\ outcomes' = <<FetchLabel(page)>>
    /\ UNCHANGED <<Params, idx, current_index, stats, stop_cause, emitted, store,
                   companies, cur, prev, call, written, Clients, Browser, Pool>>

InitClassify ==
    \E html \in AllPages :
        /\ work = <<>> /\ start_index = NoIndex /\ end_index = NoIndex
        /\ retry_failed = FALSE /\ retry_small = FALSE /\ run = 0
        /\ pc = "classify" /\ idx = 0 /\ current_index = 0
        /\ stats = NewStats(0)
        /\ stop_cause = "none" /\ emitted = 0
        /\ store = EmptyStore /\ companies = {}
        /\ report = "pending" /\ outcomes = <<>> /\ call = NoCall /\ written = <<>>
        /\ NoClients
        /\ session = "live" /\ session_proxy = NoProxy /\ page = html
        /\ proxies = {} /\ last_update = 0 /\ now = 0
        /\ cur = NoItem
        /\ prev = NoPrev

NextClassify == Classify

SpecClassify == InitClassify /\ [][NextClassify]_vars

------------------------------------------------------------------------------
(* clean_kvk_number on one cell of the kvk_number column.                    *)

\* texts of cells: something before the number, the number, something after it
CellPrefixes == {<<>>, <<"N", "L", " ">>, <<"0">>, <<"0", "0">>}
CellCores ==
    {<<>>, <<"1">>, <<"1", "2", " ", "3", "4">>,
     <<"1", "2", "3", "4", "5", "6", "7">>,
     <<"1", "2", "3", "4", "5", "6", "7", "8">>,
     <<"8", "1", "2", "3", "4", "5", "6", "7">>,
     <<"0", "0", "0", "0", "0", "0", "0", "1">>,
     <<"1", "2", "3", "4", "5", "6", "7", "8", "9">>}
CellSuffixes == {<<>>, <<".", "0">>, <<".", "5">>, <<" ">>}

\* the repr of the floats a numeric column holds
FloatTexts ==
    {<<"n", "a", "n">>, <<"0", ".", "0">>, <<"1", "2", "3", "4", ".", "0">>,
     <<"1", "2", "3", "4", "5", "6", "7", "8", ".", "0">>,
     <<"8", "1", "2", "3", "4", "5", "6", "7", ".", "0">>,
     <<"1", "2", "3", "4", "5", "6", "7", "8", "9", ".", "0">>}

Cells ==
    {Str(a \o b \o c) : a \in CellPrefixes, b \in CellCores, c \in CellSuffixes}
        \cup {Float(t) : t \in FloatTexts}

\* the cell is cleaned: "clean_kvk = clean_kvk_number(row['kvk_number'])"
Normalize ==
    /\ pc = "clean"
    /\ pc' = "cleaned"
    /\ cur' = [NoItem EXCEPT !.row = work[1],
                             !.kvk = clean_kvk_number(work[1].kvk_number),
                             !.end = "cleaned"]
    /\ UNCHANGED <<Params, idx, current_index, stats, stop_cause, emitted, store,
                   companies, prev, Direct, Browser, Pool>>

InitClean ==
    \E c \in Cells :
        /\ work = <<[kvk_number |-> c, company_name |-> "A"]>>
        /\ start_index = NoIndex /\ end_index = NoIndex
        /\ retry_failed = FALSE /\ retry_small = FALSE /\ run = 0
        /\ pc = "clean" /\ idx = 0 /\ current_index = 0
        /\ stats = NewStats(0)
        /\ stop_cause = "none" /\ emitted = 0
        /\ store = EmptyStore /\ companies = {}
        /\ report = "pending" /\ outcomes = <<>> /\ call = NoCall /\ written = <<>>
        /\ NoClients
        /\ session = "live" /\ session_proxy = NoProxy /\ page = PageBlank
        /\ proxies = {} /\ last_update = 0 /\ now = 0
        /\ cur = NoItem
        /\ prev = NoPrev

NextClean == Normalize

SpecClean == InitClean /\ [][NextClean]_vars

------------------------------------------------------------------------------
(* Direct writes to the store: any client calls CompanyDB.store_result.      *)

\* the identifiers, names and values the calls are made with
StoreKvks == KvksOf(<<RowA, RowB>>)
StoreNames == {RowA.company_name, RowB.company_name}
StoreValues == {-1, 0, 1}

\* one call store_result(company_name, kvk_number, has_branches)
StoreCall ==
    /\ pc = "store"
    /\ Len(written) < MaxWrites
    /\ \E n \in StoreNames, k \in StoreKvks, h \in StoreValues :
         /\ companies' = insert_or_replace(n, k, h)
         /\ store' = store_result(n, k, h)
         /\ written' = Append(written, [company_name |-> n, kvk_number |-> k,
                                        has_branches |-> h])
    /\ UNCHANGED <<Params, pc, idx, current_index, stats, stop_cause, emitted, cur, prev,
                   report, outcomes, call, Clients, Browser, Pool>>

InitStore ==
    /\ work = <<>> /\ start_index = NoIndex /\ end_index = NoIndex
    /\ retry_failed = FALSE /\ retry_small = FALSE /\ run = 0
    /\ pc = "store" /\ idx = 0 /\ current_index = 0
    /\ stats = NewStats(0)
    /\ stop_cause = "none" /\ emitted = 0
    /\ store = EmptyStore /\ companies = {}
    /\ report = "pending" /\ outcomes = <<>> /\ call = NoCall /\ written = <<>>
    /\ NoClients
    /\ session = "live" /\ session_proxy = NoProxy /\ page = PageBlank
    /\ proxies = {} /\ last_update = 0 /\ now = 0
    /\ cur = NoItem
    /\ prev = NoPrev

NextStore == StoreCall

SpecStore == InitStore /\ [][NextStore]_vars

------------------------------------------------------------------------------
(* Phase 2: phase2_processor.py Phase2Processor on the companies table of    *)
(* Phase 1 and the tables company_details and failed_attempts of             *)
(* company_details_db.py CompanyDetailsDB.                                   *)

\* what perplexity_client.get_company_details gives: None, details with a very
\* low or with a high confidence score, or an exception
Responses == {"none", "low", "high", "raise"}

\* SELECT ... FROM company_details / failed_attempts WHERE kvk_number = ?
has_been_processed(kvk) ==
    \/ \E r \in phase2.company_details : r.kvk_number = kvk
    \/ \E r \in phase2.failed_attempts : r.kvk_number = kvk

\* INSERT OR REPLACE INTO company_details
store_company_details(kvk, company_name, confidence) ==
    {r \in phase2.company_details : r.kvk_number # kvk}
        \cup {[kvk_number |-> kvk, company_name |-> company_name,
                confidence_score |-> confidence]}

\* INSERT OR REPLACE INTO failed_attempts, attempt_count one higher than before
store_failed_attempt(kvk, company_name) ==
    LET old == {r \in phase2.failed_attempts : r.kvk_number = kvk}
        count == IF old = {} THEN 1 ELSE (CHOOSE r \in old : TRUE).attempt_count + 1
    IN  (phase2.failed_attempts \ old)
            \cup {[kvk_number |-> kvk, company_name |-> company_name,
                    attempt_count |-> count]}

\* every row of the companies table is selected
get_companies_with_branches_all ==
    {<<r.company_name, r.kvk_number>> : r \in companies}

\* SELECT company_name, kvk_number FROM companies WHERE has_branches = 1
get_companies_with_branches ==
    {<<r.company_name, r.kvk_number>> : r \in {x \in companies : x.has_branches = 1}}

get_unprocessed_companies ==
    {c \in get_companies_with_branches : ~has_been_processed(c[2])}

\* process_company(company_name, kvk_number) with any response of the client
ProcessCompany ==
    /\ pc = "phase2"
    /\ phase2.calls < MaxProcessed
    /\ \E n \in StoreNames, k \in StoreKvks, response \in Responses :
         phase2' =
            IF response \in {"none", "raise"}
            THEN [phase2 EXCEPT !.failed_attempts = store_failed_attempt(k, n),
                                !.calls = @ + 1, !.kvk = k, !.response = response,
                                !.was_processed = has_been_processed(k),
                                !.result = FALSE]
            ELSE [phase2 EXCEPT !.company_details = store_company_details(k, n, response),
                                !.calls = @ + 1, !.kvk = k, !.response = response,
                                !.was_processed = has_been_processed(k),
                                !.result = TRUE]
    /\ UNCHANGED <<Params, Batch, Browser, Pool, report, outcomes, call, written,
                   acquired, validation, drivers, batch>>

\* a client stores details itself: phase2_db.store_company_details(...)
StoreDetails ==
    /\ pc = "phase2"
    /\ phase2.calls < MaxProcessed
    /\ \E n \in StoreNames, k \in StoreKvks :
         phase2' = [phase2 EXCEPT !.company_details = store_company_details(k, n, "high"),
                                 !.calls = @ + 1, !.kvk = k, !.response = "stored",
                                 !.was_processed = has_been_processed(k),
                                 !.result = TRUE]
    /\ UNCHANGED <<Params, Batch, Browser, Pool, report, outcomes, call, written,
                   acquired, validation, drivers, batch>>

\* Phase2Processor on any companies table Phase 1 has left and empty Phase 2 tables
InitPhase2 ==
    /\ work = <<RowA, RowB>> /\ start_index = NoIndex /\ end_index = NoIndex
    /\ retry_failed = FALSE /\ retry_small = FALSE /\ run = 0
    /\ pc = "phase2" /\ idx = 0 /\ current_index = 0
    /\ stats = NewStats(0)
    /\ stop_cause = "none" /\ emitted = 0
    /\ \E st \in StoresOf(<<RowA, RowB>>) : store = st /\ companies = TableOf(st)
    /\ report = "pending" /\ outcomes = <<>> /\ call = NoCall /\ written = <<>>
    /\ NoClients
    /\ session = "live" /\ session_proxy = NoProxy /\ page = PageBlank
    /\ proxies = {} /\ last_update = 0 /\ now = 0
    /\ cur = NoItem
    /\ prev = NoPrev

NextPhase2 ==
    \/ ProcessCompany
    \/ StoreDetails

SpecPhase2 == InitPhase2 /\ [][NextPhase2]_vars

------------------------------------------------------------------------------
(* Properties of check_company_size, over the history of a finished direct   *)
(* call (SpecFetcher).                                                       *)

\* the labels of the passes that ended in a RateLimitException raised for the page
RateLimitedLabels == {"rate_limited", "redirected"}

\* the labels of the passes that ended in a RateLimitException
RateLimitClass == RateLimitedLabels \cup {"no_proxy"}

Finished == pc = "direct" /\ call.n > 0

\* every fetch of the call was classified RateLimited
EveryFetchRateLimited ==
    \A i \in 1..Len(outcomes) : outcomes[i] \in FetchLabels => outcomes[i] \in RateLimitedLabels

\* the pool gave an endpoint on every retry of the call
PoolAlwaysYields == \A i \in 1..Len(outcomes) : outcomes[i] # "no_proxy"

\* every session replacement of the call gave a live session
EveryReplacementSucceeds == \A i \in 1..Len(outcomes) : outcomes[i] # "setup_failed"

RetriedToExhaustion ==
    /\ Fetches(outcomes) = call.max_retries
    /\ Acquires(outcomes) = call.max_retries - 1
    /\ report = "rate_limit"

C2_NoProxyEndsCall ==
    Finished =>
        \A i \in 1..Len(outcomes) : outcomes[i] = "no_proxy" => i = Len(outcomes)

\* C8: every pass of the loop that is followed by another one (a proxy acquisition,
\* a session replacement, a fetch) ended in a RateLimitException; a pass that ended
\* in a verdict, in None or in any other exception is the last one of its call.
C8_OnlyRateLimitRetries ==
    Finished =>
        \A i \in 1..Len(outcomes) : i < Len(outcomes) => outcomes[i] \in RateLimitClass

\* a call that was rate-limited, retried through a proxy, got a verdict and stopped
\* with attempts to spare
C8_RetriedThenResolved ==
    /\ Finished
    /\ call.max_retries = DefaultMaxRetries
    /\ outcomes = <<"rate_limited", "false">>
    /\ report = "false"

------------------------------------------------------------------------------
(* Properties of create_big_company_database, over the history of the pass   *)
(* of the loop made last (cur).                                              *)

IsItem == cur.end # "no_item"

\* the row of the item's identifier now
RowNow == RowOf(store, cur.kvk)

Failed == [present |-> TRUE, company_name |-> cur.row.company_name, has_branches |-> -1]

\* a retry flag applies to what was stored for the item
FlagApplies ==
    \/ retry_failed /\ cur.pre.present /\ cur.pre.has_branches = -1
    \/ retry_small /\ cur.pre.present /\ cur.pre.has_branches = 0

\* the run ended at the item, which wrote nothing
StoppedAtItem ==
    /\ pc = "done"
    /\ idx = cur.idx
    /\ current_index = cur.index
    /\ cur.writes = <<>>
    /\ store = cur.store

\* the item is done and the loop went on (to the next row or to its end)
WentOn ==
    /\ idx = cur.idx + 1
    /\ stop_cause = "none"

\* C3: when check_company_size raises RateLimitException for item i, or the item
\* raises RateLimitException or an 'invalid session id' error in the driver, the
\* run ends at item i with nothing written for it; a run that has a stop cause is
\* at its end and its last item is the one that raised.
C3_StopPolicy ==
    /\ (IsItem /\ (cur.report = "rate_limit" \/ cur.raised \in {"rate_limit", "session"}))
          => (StoppedAtItem /\ stop_cause = cur.raised)
    /\ stop_cause \in {"rate_limit", "session"}
          => (StoppedAtItem /\ cur.raised = stop_cause)

\* the first of two new items exhausted its retries: the run is over, the store
\* has neither item
C3_StoppedAtFirst ==
    /\ pc = "done" /\ stop_cause = "rate_limit"
    /\ cur.report = "rate_limit" /\ cur.idx = 0
    /\ work = <<RowA, RowB>>
    /\ store = EmptyStore

\* C4 (as amended): when check_company_size returns None for an item, the driver's
\* final check of the session passes and the store write succeeds, Failed (-1) is
\* stored under the item's name, none_results is one higher and the loop goes on;
\* the same holds, with none_results at least one higher, when an exception that
\* is neither a RateLimitException nor an 'invalid session id' error is raised
\* for the item and the write of Failed succeeds.
C4_FailedPersisted ==
    /\ (IsItem /\ cur.report = "none" /\ cur.raised = "none")
          => /\ cur.writes = <<-1>>
             /\ RowNow = Failed
             /\ stats = Bump(cur.stats, "none_results")
             /\ WentOn
    /\ (IsItem /\ cur.raised = "other" /\ cur.end # "write_error")
          => /\ cur.writes = <<-1>>
             /\ RowNow = Failed
             /\ stats.none_results > cur.stats.none_results
             /\ WentOn

\* None for the first of two new items: Failed is stored and the second is next
C4_FailedThenNext ==
    /\ pc = "next" /\ idx = 1
    /\ cur.report = "none" /\ cur.raised = "none"
    /\ work = <<RowA, RowB>>
    /\ RowNow = Failed
    /\ stats.none_results = 1

\* C4 as claimed: whenever check_company_size returns None for an item, Failed is
\* stored for it, it is counted and the loop goes on.
C4_AsClaimed ==
    (IsItem /\ cur.report = "none")
        => /\ RowNow = Failed
           /\ stats.none_results > cur.stats.none_results
           /\ WentOn

\* the skip check of the item gave its answer
Decided == IsItem /\ cur.kvk # NoKvk /\ cur.end # "read_error"

\* C5: an item whose identifier has a stored outcome is passed to
\* check_company_size iff (retry_failed and the outcome is Failed) or (retry_small
\* and the outcome is Negative); an identifier stored as Positive is not fetched
\* under any flags; an identifier without a stored outcome is fetched.
C5_SkipRetryDecision ==
    Decided =>
        /\ cur.pre.present => (cur.fetched <=> FlagApplies)
        /\ (cur.pre.present /\ cur.pre.has_branches = 1) => ~cur.fetched
        /\ ~cur.pre.present => cur.fetched
        /\ cur.fetched <=> cur.report # "no_call"

\* with both flags set the Positive item was skipped and the Failed one after it
\* was fetched again
C5_RetriedFailedNotPositive ==
    /\ retry_failed /\ retry_small
    /\ work = <<RowB, RowA>>
    /\ RowOf(store, clean_kvk_number(RowB.kvk_number)).has_branches = 1
    /\ stats.skipped_already_checked = 1
    /\ cur.idx = 1
    /\ cur.pre.present /\ cur.pre.has_branches = -1
    /\ cur.fetched

\* the driver skips the item: no identifier, or stored and no retry flag applies
Skippable ==
    /\ IsItem
    /\ cur.end # "read_error"
    /\ \/ cur.kvk = NoKvk
       \/ cur.pre.present /\ ~FlagApplies

\* C6: for every item the driver skips, no fetch is made and the store is left as
\* it was, every time the item is processed.
C6_SkipIdempotent ==
    Skippable =>
        /\ ~cur.fetched
        /\ cur.report = "no_call"
        /\ cur.writes = <<>>
        /\ store = cur.store
        /\ WentOn

\* the same identifier, stored as Positive, was processed twice with both flags
\* false and skipped twice
C6_SkippedTwice ==
    /\ ~retry_failed /\ ~retry_small
    /\ work = <<RowA, RowA>>
    /\ cur.idx = 1 /\ cur.end = "skipped"
    /\ cur.pre.has_branches = 1
    /\ stats.skipped_already_checked = 2
    /\ store = cur.store

\* the identifiers of the rows of the file at index k and after
KvksFrom(k) == {clean_kvk_number(work[i].kvk_number) : i \in (k + 1)..Len(work)}

\* the first item of the second run is the one the first run stopped at
ResumesAtStop ==
    (run = 2 /\ IsItem /\ cur.idx = 0)
        => (cur.index = prev.stop /\ cur.row = work[prev.stop + 1])

\* C7 (as amended): a run started with start_index = k on the store a run stopped
\* at index k has left begins with item k, and leaves the row of every identifier
\* that does not occur at an index >= k as it was.
C7_Resume ==
    run = 2 =>
        /\ ResumesAtStop
        /\ \A kvk \in DOMAIN prev.store :
               kvk \notin KvksFrom(prev.stop)
                   => (kvk \in DOMAIN store /\ store[kvk] = prev.store[kvk])

\* the second run stored the item the first run stopped at, beside the row the
\* first run wrote
C7_ResumedAndStored ==
    /\ run = 2
    /\ prev.stop = 1
    /\ work = <<RowA, RowB>>
    /\ DOMAIN prev.store = {clean_kvk_number(RowA.kvk_number)}
    /\ cur.idx = 0 /\ cur.index = 1 /\ cur.end = "stored"
    /\ DOMAIN store = {clean_kvk_number(RowA.kvk_number), clean_kvk_number(RowB.kvk_number)}

\* C7 as claimed: the second run begins with item k and leaves every row the first
\* run wrote as it was.
C7_AsClaimed ==
    run = 2 =>
        /\ ResumesAtStop
        /\ \A kvk \in DOMAIN prev.store :
               kvk \in DOMAIN store /\ store[kvk] = prev.store[kvk]

\* C9: every call of check_company_size ends with the pass in which the session
\* died, returning None without another proxy or fetch; whenever the session is
\* dead or an 'invalid session id' error was raised for the item, the run has
\* ended at that item with the session as its stop cause and nothing written.
C9_SessionFatalStops ==
    /\ (IsItem /\ (session = "dead" \/ cur.raised = "session"))
          => (StoppedAtItem /\ stop_cause = "session" /\ cur.raised = "session")
    /\ (pc = "next" /\ idx < Len(df))
          => \A f \in check_company_size(BeginCall(Fetcher, DefaultMaxRetries)) :
                 \A i \in 1..Len(f.outcomes) :
                     f.outcomes[i] = "session_dead"
                         => (i = Len(f.outcomes) /\ f.report = "none" /\ f.session = "dead")

\* the session died while a new item was fetched: the call returned None, the run
\* stopped and the item has no row
C9_DiedInFetch ==
    /\ pc = "done" /\ stop_cause = "session"
    /\ session = "dead"
    /\ cur.report = "none" /\ cur.fetched
    /\ ~cur.pre.present /\ ~RowNow.present
    /\ idx < Len(df)

\* the run is over before the rows are used up
EndedEarly == pc = "done" /\ idx < Len(df)

EmittedAtEnd ==
    /\ pc = "next" => emitted = 0
    /\ pc = "done" => emitted = 1

\* C11: a run logs its statistics exactly once, when it ends (at the end of the
\* file or on a stop), and no step that logs them or follows their logging in the
\* run changes the store.
C11_StatsOnceAtEnd ==
    /\ [](pc \in {"next", "done"} => EmittedAtEnd)
    /\ [][store' # store => (emitted = 0 /\ emitted' = 0)]_vars
    /\ [][emitted' = emitted + 1 => (emitted' = 1 /\ store' = store)]_vars

\* a run that stored an item, was stopped at the next and logged its statistics
C11_StoppedAndEmitted ==
    /\ pc = "done" /\ emitted = 1
    /\ stop_cause = "rate_limit"
    /\ cur.idx = 1
    /\ store # EmptyStore
    /\ run = 1

\* the steps a run can still take: one for every row left and one to leave the loop
Remaining == IF pc = "done" THEN 0 ELSE (Len(df) - idx) + 1

\* the driver can take a step: the loop ends, or the row is skipped, or
\* check_company_size returns or raises
StepPossible ==
    \/ idx = Len(df)
    \/ /\ idx < Len(df)
       /\ \/ clean_kvk_number(ThisRow.kvk_number) = NoKvk
          \/ skips(clean_kvk_number(ThisRow.kvk_number))
          \/ check_company_size(BeginCall(Fetcher, DefaultMaxRetries)) # {}

\* C12: every run over a finite file ends with its statistics logged: until the run
\* is over a step is possible (every call of check_company_size comes to an end),
\* every step lowers the number of steps the run can still take, and a run that is
\* over has logged its statistics.
C12_Terminates ==
    /\ [](pc = "next" => StepPossible)
    /\ [][pc = "next" => (Remaining' < Remaining /\ Remaining' >= 0)]_vars
    /\ [](pc = "done" => emitted = 1)

\* a run over two items, one recorded as Failed and one stored as Positive, that
\* reached the end of the file
C12_RanToEnd ==
    /\ pc = "done" /\ emitted = 1
    /\ stop_cause = "none"
    /\ idx = Len(df) /\ Len(df) = 2
    /\ stats.none_results = 1 /\ stats.stored_true = 1

\* the sum of the five per-item counters
StatsSum(st) ==
    st.skipped_invalid_kvk + st.skipped_already_checked + st.none_results
        + st.stored_true + st.stored_false

\* C13 as claimed: an item that is finished raised exactly one of the five counters
\* by one, so the counters sum to the number of items finished, and to total when
\* the loop has ended normally.
C13_OneCounterPerItem ==
    /\ (IsItem /\ idx = cur.idx + 1) => StatsSum(stats) = StatsSum(cur.stats) + 1
    /\ pc = "next" => StatsSum(stats) = idx
    /\ (pc = "done" /\ stop_cause = "none") => StatsSum(stats) = stats.total

\* the run was ended by a RateLimitException or an 'invalid session id' error
StoppedEarly == pc = "done" /\ stop_cause \in {"rate_limit", "session"}

\* C14: when a run is stopped, current_index is the index in the file (the start
\* offset included) of the item that raised; the idx items of the frame before it
\* were finished in this run; and the frame of a run started at current_index with
\* the same end index is the rest of this run's frame, the item that raised first.
C14_ReportedIndex ==
    StoppedEarly =>
        /\ current_index = Offset + idx
        /\ current_index < Len(work)
        /\ work[current_index + 1] = cur.row
        /\ cur.idx = idx /\ cur.index = current_index
        /\ StatsSum(stats) >= idx
        /\ SliceRows(work, current_index, end_index) = SubSeq(df, idx + 1, Len(df))

\* a run started at index 1 was stopped at its first item: it reports index 1
C14_StoppedAtOffset ==
    /\ StoppedEarly
    /\ start_index = 1
    /\ idx = 0
    /\ current_index = 1
    /\ work = <<RowA, RowB>>
    /\ cur.row = RowB

\* the outcome a verdict maps to: Positive for HasSubsidiary, Negative for NoSubsidiary
Mapped(verdict) == IF verdict = "true" THEN 1 ELSE 0

\* check_company_size gave a verdict for the item, the final check of the session
\* passed and the store write succeeded
Resolved == IsItem /\ cur.report \in {"true", "false"} /\ cur.raised = "none"

\* the item's verdict is stored under its name and counted in the matching counter
VerdictStored ==
    /\ RowNow = [present |-> TRUE, company_name |-> cur.row.company_name,
                 has_branches |-> Mapped(cur.report)]
    /\ cur.writes = <<Mapped(cur.report)>>
    /\ stats = Bump(cur.stats, IF cur.report = "true" THEN "stored_true" ELSE "stored_false")
    /\ WentOn

\* the rows of the file hold distinct identifiers
DistinctValid ==
    /\ \A i \in 1..Len(work) : clean_kvk_number(work[i].kvk_number) # NoKvk
    /\ \A i, j \in 1..Len(work) :
           clean_kvk_number(work[i].kvk_number) = clean_kvk_number(work[j].kvk_number) => i = j

\* the first run, on the empty store, reached the end of the file and every item
\* was resolved with no error
CleanRun ==
    /\ run = 1 /\ pc = "done" /\ stop_cause = "none"
    /\ DistinctValid
    /\ stats.none_results = 0
    /\ stats.stored_true + stats.stored_false = Len(work)

\* the store holds one row for every item, Positive or Negative, under the item's
\* name, as many Positive and Negative rows as verdicts of each kind were counted
StoreMatchesVerdicts ==
    /\ DOMAIN store = KvksOf(work)
    /\ \A i \in 1..Len(work) :
           LET row == store[clean_kvk_number(work[i].kvk_number)]
           IN  row.company_name = work[i].company_name /\ row.has_branches \in {0, 1}
    /\ Cardinality({k \in DOMAIN store : store[k].has_branches = 1}) = stats.stored_true
    /\ Cardinality({k \in DOMAIN store : store[k].has_branches = 0}) = stats.stored_false
    /\ stats.skipped_invalid_kvk = 0 /\ stats.skipped_already_checked = 0

\* C15: a verdict of check_company_size is stored as 1 for True and 0 for False
\* under the item's name and counted in stored_true or stored_false; a step changes
\* no row but that of its item; so a run over distinct valid identifiers on an
\* empty store in which every item is resolved ends with exactly the mapped outcome
\* of each item in the store and nothing skipped.
C15_OutcomeMapping ==
    /\ [](Resolved => VerdictStored)
    /\ [][\A k \in DOMAIN store :
             k # cur'.kvk => (k \in DOMAIN store' /\ store'[k] = store[k])]_vars
    /\ [](CleanRun => StoreMatchesVerdicts)

\* the file <<A, B>> on the empty store, False for A and True for B: the store ends
\* with A Negative and B Positive
C15_EndToEnd ==
    /\ CleanRun
    /\ work = <<RowA, RowB>>
    /\ store[clean_kvk_number(RowA.kvk_number)] = [company_name |-> "A", has_branches |-> 0]
    /\ store[clean_kvk_number(RowB.kvk_number)] = [company_name |-> "B", has_branches |-> 1]
    /\ stats.stored_true = 1 /\ stats.stored_false = 1

\* the rows the table holds for an identifier
RowsOf(tbl, kvk) == {r \in tbl : r.kvk_number = kvk}

\* the calls of store_result made for an identifier, by their place in the history
WritesOf(kvk) == {i \in 1..Len(written) : written[i].kvk_number = kvk}

\* the most recent call of store_result for an identifier
LastWrite(kvk) == written[CHOOSE i \in WritesOf(kvk) : \A j \in WritesOf(kvk) : j <= i]

\* C16: after any sequence of store_result calls the table holds no row for an
\* identifier never written and, for a written one, exactly one row, which carries
\* the name and the value of the most recent call for it; a call leaves the rows of
\* all other identifiers as they were; the keyed view agrees with the table.
C16_Upsert ==
    /\ [](\A k \in StoreKvks :
            RowsOf(companies, k) = IF WritesOf(k) = {} THEN {} ELSE {LastWrite(k)})
    /\ [](\A r \in companies : r.kvk_number \in StoreKvks)
    /\ [](companies = TableOf(store))
    /\ [][Len(written') = Len(written) + 1 =>
             \A k \in StoreKvks :
                 k # written'[Len(written')].kvk_number =>
                     RowsOf(companies', k) = RowsOf(companies, k)]_vars

\* an identifier was stored as Failed under one name and then as Positive under
\* another, with a write for another identifier in between: its row is the last one
C16_Overwritten ==
    /\ Len(written) = 3
    /\ written[1] = [company_name |-> "A", kvk_number |-> clean_kvk_number(RowA.kvk_number),
                     has_branches |-> -1]
    /\ written[2].kvk_number = clean_kvk_number(RowB.kvk_number)
    /\ written[3] = [company_name |-> "B", kvk_number |-> clean_kvk_number(RowA.kvk_number),
                     has_branches |-> 1]
    /\ RowsOf(companies, clean_kvk_number(RowA.kvk_number)) = {written[3]}
    /\ Cardinality(companies) = 2

------------------------------------------------------------------------------
(* Properties of clean_kvk_number (SpecClean).                               *)

Cleaned == pc = "cleaned" /\ cur.end = "cleaned"

TextWithDecimal == Str(<<"8", "1", "2", "3", "4", "5", "6", "7", ".", "0">>)

\* C17: clean_kvk_number of the text "81234567.0" is "81234567".
C17_TrailingDecimal ==
    (Cleaned /\ cur.row.kvk_number = TextWithDecimal) =>
        cur.kvk = <<"8", "1", "2", "3", "4", "5", "6", "7">>

\* the digits of the cell: of the whole text, of a float up to the decimal point
DigitsOfCell(kvk) ==
    IF kvk.type = "float" THEN ExtractDigits(IntPart(kvk.text)) ELSE ExtractDigits(kvk.text)

RECURSIVE StripZeros(_)
StripZeros(ds) == IF ds # <<>> /\ Head(ds) = "0" THEN StripZeros(Tail(ds)) ELSE ds

\* ds after as many zeros as make KvkWidth characters
ZeroFilled(ds) ==
    [i \in 1..KvkWidth |-> IF i <= KvkWidth - Len(ds) THEN "0" ELSE ds[i - (KvkWidth - Len(ds))]]

\* C18 (as amended): clean_kvk_number yields no identifier exactly for the cells
\* that have no digit (or are nan) or have more than 8 digits after the leading
\* zeros are stripped; for every other cell it yields the stripped digits filled
\* with zeros on the left to 8 characters.
C18_InvalidOrPadded ==
    Cleaned =>
        LET cell == cur.row.kvk_number
            stripped == StripZeros(DigitsOfCell(cell))
        IN  IF \/ cell.type = "float" /\ FloatIsNan(cell.text)
               \/ DigitsOfCell(cell) = <<>>
               \/ Len(stripped) > KvkWidth
            THEN cur.kvk = NoKvk
            ELSE cur.kvk = ZeroFilled(stripped)

\* "NL 12 34" was cleaned: four digits, and the identifier is "00001234"
C18_ShortIsPadded ==
    /\ Cleaned
    /\ cur.row.kvk_number = Str(<<"N", "L", " ", "1", "2", " ", "3", "4">>)
    /\ cur.kvk = <<"0", "0", "0", "0", "1", "2", "3", "4">>

\* C18 (as stated): clean_kvk_number yields no identifier for every cell whose
\* digit count, after the leading zeros are stripped, is not exactly 8.
C18_AsClaimed ==
    (Cleaned /\ Len(StripZeros(DigitsOfCell(cur.row.kvk_number))) # KvkWidth) =>
        cur.kvk = NoKvk

------------------------------------------------------------------------------
(* Properties of the classification of a page (SpecClassify).                *)

Classified == pc = "classified"

\* the rate-limit check of _check_company_size_impl fired
Detected == outcomes = <<"rate_limited">>

TitleMarker == page.has_title /\ (page.title_tmr \/ page.title_429)

MessagePhrase == page.message = "rate"

\* C19 (as amended): the rate-limit check fires if and only if the title contains
\* 'too many requests' or '429' or the message region contains one of the
\* phrases; when it fires the page is rate-limited whatever else it contains, and
\* nothing else of the page is interpreted unless it did not fire.
C19_DetectionFirst ==
    Classified =>
        /\ Detected <=> (TitleMarker \/ MessagePhrase)
        /\ Detected => report = "rate_limit"
        /\ report \in {"true", "false", "none"} => (~TitleMarker /\ ~MessagePhrase)

\* a page of the site with a 'too many requests' title, a branch region and a
\* plain message is rate-limited
C19_TitleWins ==
    /\ Classified
    /\ page.has_title /\ page.title_tmr /\ ~page.title_429 /\ page.title_oc
    /\ page.section /\ page.message = "plain"
    /\ report = "rate_limit" /\ Detected

\* C19 (as stated): the rate-limit check fires if and only if the title contains
\* a 'too many requests' marker or the message region contains one of the phrases.
C19_AsClaimed ==
    Classified => (Detected <=> ((page.has_title /\ page.title_tmr) \/ MessagePhrase))

\* C20 (as amended): of the pages that carry no rate-limit marker, one whose title
\* does not reference the site is rate-limited, one with no title element gives
\* None, and only a page with a title that references the site gets True or False.
C20_PageValidity ==
    (Classified /\ ~TitleMarker /\ ~MessagePhrase) =>
        /\ (page.has_title /\ ~page.title_oc) => (report = "rate_limit" /\ outcomes = <<"redirected">>)
        /\ ~page.has_title => (report = "none" /\ outcomes = <<"no_title">>)
        /\ report \in {"true", "false"} => (page.has_title /\ page.title_oc)

\* a page with no title, no message region and a branch region gave None
C20_NoTitleGivesNone ==
    /\ Classified
    /\ ~page.has_title /\ page.message = "none" /\ page.section
    /\ report = "none"

\* C20 (as stated): a page that carries no rate-limit marker and has no title
\* element, or a title that does not reference the site, is rate-limited.
C20_AsClaimed ==
    (Classified /\ ~TitleMarker /\ ~MessagePhrase /\ (~page.has_title \/ ~page.title_oc)) =>
        report = "rate_limit"

\* the page is not rate-limited and its title references the site
ValidPage == ~TitleMarker /\ ~MessagePhrase /\ page.has_title /\ page.title_oc

\* C21: for a page that is not rate-limited and has a title referencing the site
\* the verdict is True if and only if the branch-relationship region is present, or
\* a list item of the similarly-named sidebar holds 'branch', or the company-data
\* table holds 'branch'; otherwise it is False, never None or an exception, also
\* when none of the three regions exists.
C21_SubsidiaryCheck ==
    (Classified /\ ValidPage) =>
        /\ report \in {"true", "false"}
        /\ report = "true" <=>
               (page.section \/ page.similar = "branch" \/ page.table = "branch")
        /\ outcomes = <<report>>

\* a page of the site with none of the three regions was classified False
C21_NoRegionsIsFalse ==
    /\ Classified /\ ValidPage
    /\ ~page.section /\ page.similar = "none" /\ page.table = "none"
    /\ report = "false"

------------------------------------------------------------------------------
(* Properties of what a run persists (Spec).                                 *)

\* the page the session shows is of the site, not rate-limited, with no branch
\* indicator
CleanNegativePage(html) ==
    /\ html.has_title /\ html.title_oc
    /\ ~html.title_tmr /\ ~html.title_429 /\ html.message # "rate"
    /\ ~html.section /\ html.similar # "branch" /\ html.table # "branch"

\* the identifiers a step makes Negative
BecameNegative(old, new) ==
    {k \in DOMAIN new :
        new[k].has_branches = 0 /\ (k \notin DOMAIN old \/ old[k].has_branches # 0)}

\* C22: a step stores Negative only for the item it processes, only when
\* check_company_size returned False for it, and then the last page fetched has a
\* title referencing the site, no rate-limit marker and no branch indicator; an
\* item whose call returned None (no title, an exception in the parse or the
\* fetch) or raised never has Negative written.
C22_NoFalseNegative ==
    /\ [][\A k \in BecameNegative(store, store') :
             /\ cur'.kvk = k /\ cur'.report = "false" /\ cur'.fetched
             /\ CleanNegativePage(page')]_vars
    /\ [](IsItem /\ cur.report # "false" => \A i \in 1..Len(cur.writes) : cur.writes[i] # 0)
    /\ [](IsItem /\ cur.writes = <<0>> => CleanNegativePage(page))

\* an item was rate-limited on the direct session, fetched again through a proxy,
\* found without branches and stored Negative
C22_NegativeAfterRetry ==
    /\ IsItem /\ cur.writes = <<0>> /\ cur.report = "false"
    /\ session_proxy # NoProxy
    /\ RowNow.has_branches = 0 /\ ~cur.pre.present

------------------------------------------------------------------------------
(* Properties of the proxy pool, over the last get_proxy call (SpecPool).    *)

Acquired == pc = "pool" /\ acquired.n > 0

\* the pool was empty or its last refresh is older than the interval
EmptyOrStale ==
    \/ acquired.before.proxies = {}
    \/ acquired.at - acquired.before.last_update > UpdateInterval

\* C23: get_proxy refreshes the pool if and only if the pool is empty or the last
\* refresh is older than the interval; it returns none if and only if the pool is
\* empty after that, and otherwise a member of the pool; a non-empty pool whose
\* refresh is not older than the interval is left as it is.
C23_Acquire ==
    Acquired =>
        /\ acquired.updated <=> EmptyOrStale
        /\ acquired.proxy = NoProxy <=> proxies = {}
        /\ acquired.proxy # NoProxy => acquired.proxy \in proxies
        /\ ~EmptyOrStale =>
               /\ proxies = acquired.before.proxies
               /\ last_update = acquired.before.last_update

\* a non-empty pool refreshed exactly the interval ago is not refreshed, and a
\* member of it is returned
C23_NotYetStale ==
    /\ Acquired
    /\ acquired.before.proxies # {}
    /\ acquired.at - acquired.before.last_update = UpdateInterval
    /\ ~acquired.updated
    /\ acquired.proxy \in proxies

\* C24: after a refresh that validated no endpoint, a get_proxy call made within
\* the refresh interval performs no refresh.
C24_FailedRefreshBounded ==
    (/\ Acquired /\ acquired.n >= 2
     /\ acquired.before.proxies = {}
     /\ acquired.at - acquired.before.last_update <= UpdateInterval) =>
        ~acquired.updated

\* C26: a pool changes only by a completed refresh; after a call that refreshed,
\* the pool is exactly the set that refresh validated, whatever the pool held
\* before, and last_update is the time of the refresh, also when nothing was
\* validated; the endpoint returned is one of that set.
C26_WholesaleRefresh ==
    /\ [](Acquired /\ acquired.updated =>
            /\ proxies = acquired.valid
            /\ last_update = acquired.at /\ last_update = now
            /\ acquired.proxy \in acquired.valid \cup {NoProxy})
    /\ [][(proxies' # proxies \/ last_update' # last_update) =>
             (acquired'.updated /\ proxies' = acquired'.valid /\ last_update' = now')]_vars

\* a stale pool of one endpoint was refreshed, nothing was validated: the pool is
\* empty and the time of the refresh is recorded
C26_OldEndpointDropped ==
    /\ Acquired /\ acquired.updated
    /\ acquired.before.proxies # {} /\ acquired.valid = {}
    /\ proxies = {} /\ last_update = acquired.at
    /\ last_update > acquired.before.last_update

------------------------------------------------------------------------------
(* Properties of _validate_proxies (SpecValidate).                           *)

\* the candidates of the returned list
Returned_valid == {validation.valid_proxies[j] : j \in 1..Len(validation.valid_proxies)}

\* C25: whatever the order in which the probes start and end and the futures are
\* yielded, the list _validate_proxies returns holds exactly the candidates whose
\* probe returned status 200, each once, and at no time a candidate whose probe
\* returned another status or raised.
C25_ExactlyTheValid ==
    /\ validation.returned =>
           /\ Returned_valid = {i \in Candidates : validation.probe[i] = "ok"}
           /\ Len(validation.valid_proxies) = Cardinality(Returned_valid)
    /\ \A j \in 1..Len(validation.valid_proxies) :
           validation.probe[validation.valid_proxies[j]] = "ok"

\* three candidates: the last and the first are valid and were yielded in that
\* order, the probe of the second raised
C25_OutOfOrder ==
    /\ validation.returned
    /\ validation.probe = <<"ok", "error", "ok">>
    /\ validation.valid_proxies = <<3, 1>>

------------------------------------------------------------------------------
(* Properties of Phase 2 (SpecPhase2).                                       *)

Processed == pc = "phase2" /\ phase2.calls > 0

\* C27: when the client returns details with a very low confidence score,
\* process_company returns False and an identifier not processed before stays
\* not processed; when the client returns nothing, process_company returns False.
C27_LowConfidenceRejected ==
    /\ (Processed /\ phase2.response = "low") =>
           /\ phase2.result = FALSE
           /\ ~phase2.was_processed => ~has_been_processed(phase2.kvk)
    /\ (Processed /\ phase2.response = "none") => phase2.result = FALSE

\* the identifiers Phase 2 takes as unprocessed
Unprocessed == {c[2] : c \in get_unprocessed_companies}

\* the identifiers recorded in the Phase 2 store
Recorded ==
    {r.kvk_number : r \in phase2.company_details}
        \cup {r.kvk_number : r \in phase2.failed_attempts}

\* C28: the identifiers Phase 2 takes as unprocessed are exactly those stored
\* Positive in the Phase 1 store that are not recorded in the Phase 2 store, under
\* the name of the Phase 1 row; an identifier stored Negative or Failed is never
\* taken; a step that stores details for an identifier leaves it out of the
\* unprocessed set.
C28_Selection ==
    /\ [](pc = "phase2" =>
            /\ Unprocessed = {k \in DOMAIN store : store[k].has_branches = 1} \ Recorded
            /\ \A c \in get_unprocessed_companies : c[1] = store[c[2]].company_name
            /\ \A k \in DOMAIN store : store[k].has_branches \in {-1, 0} => k \notin Unprocessed)
    /\ [][\A r \in phase2'.company_details \ phase2.company_details :
             r.kvk_number \notin Unprocessed']_vars

\* two Positive identifiers were unprocessed; details were stored for one, and
\* only the other is still unprocessed
C28_OneLeft ==
    /\ pc = "phase2"
    /\ \A k \in StoreKvks : k \in DOMAIN store /\ store[k].has_branches = 1
    /\ phase2.calls = 1 /\ phase2.response = "stored" /\ ~phase2.was_processed
    /\ Unprocessed = StoreKvks \ {phase2.kvk}

------------------------------------------------------------------------------
(* Properties of the sessions of a fetcher, over direct calls (SpecFetcher). *)

\* C29: the first pass of every call of check_company_size is made over a session
\* bound to no proxy, also in a call that follows one that needed a proxy; a later
\* pass that fetched leaves the session bound to an endpoint of the pool.
C29_AttemptZeroDirect ==
    [][(call'.n = call.n + 1 /\ outcomes' # <<>>) =>
          /\ session_proxy = NoProxy
          /\ (Len(outcomes') >= 2 /\ outcomes'[Len(outcomes')] \in FetchLabels) =>
                 session_proxy' \in proxies']_vars

\* C30: a fetcher has a live session after every call, also after a call in which
\* setup_browser failed to create the new session.
C30_OneLiveSession ==
    (pc = "direct" /\ outcomes # <<>> /\ outcomes[Len(outcomes)] = "setup_failed") =>
        session = "live"

------------------------------------------------------------------------------
(* Properties of the order in which a run resolves its items (Spec).         *)

\* the identifiers whose row a step changes
Changed(old, new) ==
    {k \in DOMAIN new : k \notin DOMAIN old \/ new[k] # old[k]}
        \cup (DOMAIN old \ DOMAIN new)

\* C31: every pass of the loop resolves the row at the position of the loop index,
\* one position after the row of the pass before; the fetches and the store write
\* of a pass are those of its own row, made before the next pass begins, so the
\* rows are written in the order of the work sequence.
C31_Sequential ==
    /\ [](IsItem => (cur.idx < Len(df) /\ cur.row = df[cur.idx + 1]
                      /\ cur.index = Offset + cur.idx))
    /\ [][cur' # cur =>
             /\ cur'.idx = idx
             /\ IsItem => cur'.idx = cur.idx + 1
             /\ idx' \in {idx, idx + 1}]_vars
    /\ [][\A k \in Changed(store, store') :
             /\ k = cur'.kvk /\ cur'.idx = idx
             /\ cur'.writes # <<>>]_vars

\* the first row was fetched and stored, then the second row was fetched and stored
C31_SecondAfterFirst ==
    /\ IsItem /\ cur.idx = 1 /\ cur.fetched /\ cur.writes # <<>>
    /\ work = <<RowA, RowB>>
    /\ ~cur.pre.present
    /\ cur.store # EmptyStore /\ DOMAIN cur.store = {clean_kvk_number(RowA.kvk_number)}
    /\ cur.stats.stored_false = 1 /\ cur.store[clean_kvk_number(RowA.kvk_number)].has_branches = 0
    /\ DOMAIN store = KvksOf(work)

------------------------------------------------------------------------------
(* Properties of a refresh of the pool (SpecRefresh).                        *)

AllProbesDone == \A i \in Candidates : validation.stage[i] = "yielded"

\* C32: during a refresh at most MaxWorkers probes run at any time; the pool is
\* replaced and get_proxy returns only after the probe of every candidate has
\* ended and was taken by the calling thread, and until then the pool and the
\* refresh time are as before.
C32_BlockingBounded ==
    /\ [](Cardinality(Running) <= MaxWorkers)
    /\ [](pc \in {"validated", "refreshed"} => (validation.returned /\ AllProbesDone))
    /\ [](pc = "validate" => (proxies = {} /\ last_update = 0 /\ acquired = NoAcquire))
    /\ [][(proxies' # proxies \/ last_update' # last_update \/ acquired' # acquired) =>
             (validation.returned /\ AllProbesDone /\ pc' = "refreshed")]_vars

\* every worker thread runs a probe and the last candidate waits in the queue
C32_AllWorkersBusy ==
    /\ pc = "validate"
    /\ Cardinality(Running) = MaxWorkers
    /\ validation.stage[MaxWorkers + 1] = "submitted"

------------------------------------------------------------------------------
(* Properties of the index bounds of a run (SpecBounds).                     *)

\* the position is inside the bounds of the run
InBounds(p) ==
    /\ 0 <= p /\ p < Len(work)
    /\ start_index # NoIndex => start_index <= p
    /\ end_index # NoIndex => p < end_index

Inside == {p \in 0..(Len(work) - 1) : InBounds(p)}

\* the identifiers of the rows inside the bounds
KvksInside == {clean_kvk_number(work[p + 1].kvk_number) : p \in Inside} \ {NoKvk}

\* C33 (as amended): a run takes only rows whose position is inside the bounds,
\* the first of them first and then each next one; total is the number of rows
\* inside the bounds; a step changes no row of the store but that of the item it
\* takes, so the row of an identifier that occurs at no position inside the
\* bounds is never changed.
C33_IndexBounds ==
    /\ [](IsItem => (InBounds(cur.index) /\ cur.row = work[cur.index + 1]))
    /\ [](stats.total = Cardinality(Inside) /\ Len(df) = Cardinality(Inside))
    /\ [][cur' # cur =>
             /\ cur'.index \in Inside
             /\ \A p \in Inside : p < cur'.index <=> (IsItem /\ p <= cur.index)]_vars
    /\ [][\A k \in Changed(store, store') : k \in KvksInside /\ k = cur'.kvk]_vars

\* of the file <<A, B>> a run with start index 1 fetched and stored B alone; A was
\* stored before and its row is as it was
C33_OnlySecond ==
    /\ pc = "done" /\ stop_cause = "none"
    /\ work = <<RowA, RowB>> /\ start_index = 1 /\ end_index = NoIndex
    /\ cur.index = 1 /\ cur.fetched /\ cur.writes # <<>>
    /\ stats.total = 1
    /\ RowOf(store, clean_kvk_number(RowA.kvk_number)) =
           RowOf(cur.store, clean_kvk_number(RowA.kvk_number))
    /\ RowOf(store, clean_kvk_number(RowA.kvk_number)).present

\* C33 (as stated): the stored outcome of an item at a position outside the bounds
\* is not changed by the run.
C33_AsClaimed ==
    [][\A p \in (0..(Len(work) - 1)) \ Inside :
          LET k == clean_kvk_number(work[p + 1].kvk_number)
          IN  k # NoKvk => RowOf(store', k) = RowOf(store, k)]_vars

------------------------------------------------------------------------------
(* The fetcher and the pool (SpecFetcher).                                   *)

\* the last pass of the call made a fetch through an endpoint it had acquired and
\* the response was classified rate-limited
RateLimitedThroughEndpoint(os) ==
    Len(os) >= 2 /\ os[Len(os)] \in {"rate_limited", "redirected"}

\* C34: a call of check_company_size changes the pool only in a pass that acquires
\* an endpoint (a pass after the first), and only when get_proxy found the pool
\* empty or older than the interval and replaced it whole, recording the time; the
\* endpoint through which the last response was classified rate-limited is still
\* a member of the pool when the call ends.
C34_PoolOnlyRefreshed ==
    /\ [][(proxies' # proxies \/ last_update' # last_update) =>
             /\ Acquires(outcomes') >= 1
             /\ proxies = {} \/ now' - last_update > UpdateInterval
             /\ last_update' >= now /\ last_update' <= now']_vars
    /\ [][RateLimitedThroughEndpoint(outcomes') =>
             (session_proxy' # NoProxy /\ session_proxy' \in proxies')]_vars

\* the second call was rate-limited twice, the second time through endpoint 1 of a
\* pool that is not empty: the endpoint is still in the pool
C34_RateLimitedEndpointKept ==
    /\ pc = "direct" /\ call.n = 2
    /\ outcomes = <<"rate_limited", "rate_limited">>
    /\ report = "rate_limit"
    /\ session_proxy = 1 /\ proxies = {1}

------------------------------------------------------------------------------
(* The result of the normalisation (SpecClean).                              *)

\* C35: clean_kvk_number returns None or a string of exactly 8 decimal digits; it
\* returns a string exactly when the digits extracted from the cell (of a float:
\* from its integer value) are at least one and, stripped of leading zeros, at
\* most 8, and the string is those stripped digits after zeros that fill it to 8;
\* cleaning the returned string again returns the same string.
C35_EightDigitsOrNone ==
    Cleaned =>
        LET cell == cur.row.kvk_number
            digits == IF cell.type = "float" /\ FloatIsNan(cell.text) THEN <<>>
                      ELSE DigitsOfCell(cell)
            stripped == StripZeros(digits)
        IN  /\ cur.kvk = NoKvk \/ (Len(cur.kvk) = KvkWidth /\ \A i \in 1..KvkWidth : IsDigit(cur.kvk[i]))
            /\ cur.kvk # NoKvk <=> (digits # <<>> /\ Len(stripped) <= KvkWidth)
            /\ cur.kvk # NoKvk =>
                  /\ SubSeq(cur.kvk, KvkWidth - Len(stripped) + 1, KvkWidth) = stripped
                  /\ \A i \in 1..(KvkWidth - Len(stripped)) : cur.kvk[i] = "0"
                  /\ clean_kvk_number(Str(cur.kvk)) = cur.kvk

\* "0012345678" was cleaned: ten digits, eight after the zeros are stripped, and
\* the identifier is "12345678"
C35_TenDigitsWithZeros ==
    /\ Cleaned
    /\ cur.row.kvk_number = Str(<<"0", "0", "1", "2", "3", "4", "5", "6", "7", "8">>)
    /\ cur.kvk = <<"1", "2", "3", "4", "5", "6", "7", "8">>
    /\ clean_kvk_number(Str(cur.kvk)) = cur.kvk

------------------------------------------------------------------------------
(* The final rate-limit check of the driver (Spec).                          *)

\* C36: an item that wrote a row to the store passed the final check: the last
\* page its session loaded was not classified rate-limited.
C36_WrittenAfterCleanFinalCheck ==
    (IsItem /\ cur.writes # <<>>) => ~is_rate_limited(page)

------------------------------------------------------------------------------
(* Reprocessing under a retry flag (Spec).                                   *)

\* the item's identifier was stored and a retry flag made the driver take it again
Reprocessed == IsItem /\ FlagApplies /\ cur.report # "no_call"

\* C37: when a stored identifier is taken again under a retry flag and the run
\* stops on it by a rate-limit or an 'invalid session id' signal, its row (outcome
\* and name) is the one stored before; the row is another one only when the item
\* ended with a verdict or a failed result, and is then what that item wrote.
C37_PriorRowKept ==
    /\ []((Reprocessed /\ cur.raised \in {"rate_limit", "session"}) =>
              /\ RowNow = cur.pre
              /\ cur.writes = <<>>
              /\ pc = "done" /\ stop_cause = cur.raised)
    /\ []((Reprocessed /\ RowNow # cur.pre) =>
              /\ cur.end \in {"stored", "failed"}
              /\ cur.writes # <<>>
              /\ RowNow = [present |-> TRUE, company_name |-> cur.row.company_name,
                           has_branches |-> cur.writes[Len(cur.writes)]])
    /\ [][\A k \in DOMAIN store :
             (k \notin DOMAIN store' \/ store'[k] # store[k]) =>
                 (cur'.kvk = k /\ cur'.end \in {"stored", "failed"})]_vars

\* B was stored as having no branches; with the flag for such rows it was fetched
\* again, the fetch ended rate-limited and the run stopped: the row is as before
C37_StoppedOnRetry ==
    /\ Reprocessed /\ retry_small /\ ~retry_failed
    /\ cur.pre.present /\ cur.pre.has_branches = 0
    /\ cur.fetched /\ cur.raised = "rate_limit"
    /\ pc = "done" /\ stop_cause = "rate_limit"
    /\ RowNow = cur.pre

------------------------------------------------------------------------------
(* Two driver processes on one store: each runs the loop of                  *)
(* create_big_company_database over the same file with the same flags, with  *)
(* its own scraper. The skip check (the SELECTs of has_been_checked,         *)
(* is_failed_result, is_no_branches_result) and the write (INSERT OR REPLACE)*)
(* are separate statements on separate connections: other processes run      *)
(* between them. The skip check is taken as one step.                        *)

\* a scraper as a process constructs it
NewScraper ==
    [session |-> "live", session_proxy |-> NoProxy, page |-> PageBlank,
     proxies |-> {}, last_update |-> 0, now |-> 0]

\* what the inner try block does with a call that ended as f: the run stops (a
\* RateLimitException or an 'invalid session id' error is raised again) or a value
\* is written (the result, or -1 by the generic handler)
OutcomesOf(f) ==
    IF f.report = "rate_limit" THEN {[stop |-> TRUE, value |-> -1]}
    ELSE {[stop |-> TRUE, value |-> -1]}
         \cup (IF f.session = "quit" THEN {[stop |-> FALSE, value |-> -1]} ELSE {})
         \cup (IF f.session = "live" /\ ~is_rate_limited(f.page)
               THEN {[stop |-> FALSE, value |-> stored_value(f.report)],
                     [stop |-> FALSE, value |-> -1]}
               ELSE {})

DriverOutcomes ==
    UNION {OutcomesOf(Returned(g)) :
              g \in check_company_size(BeginCall(NewScraper, DefaultMaxRetries))}

\* the row process p is at
RowAt(p) == work[drivers[p].idx + 1]

\* process p cleans the identifier of its row and makes the skip check
DriverCheck(p) ==
    /\ pc = "drivers"
    /\ batch' = batch
    /\ drivers[p].pc = "check" /\ drivers[p].idx < Len(work)
    /\ LET kvk == clean_kvk_number(RowAt(p).kvk_number)
       IN  \/ /\ kvk = NoKvk
              /\ drivers' = [drivers EXCEPT ![p].idx = @ + 1]
           \/ /\ kvk # NoKvk /\ skips(kvk)
              /\ drivers' = [drivers EXCEPT ![p].idx = @ + 1]
           \/ /\ kvk # NoKvk /\ ~skips(kvk)
              /\ drivers' = [drivers EXCEPT ![p].pc = "fetch"]
    /\ UNCHANGED <<Params, pc, idx, current_index, stats, stop_cause, emitted, store,
                   companies, cur, prev, report, outcomes, call, written, acquired,
                   validation, phase2, Browser, Pool>>

\* process p calls check_company_size for its row and deals with what it gave
DriverStore(p) ==
    /\ pc = "drivers"
    /\ batch' = batch
    /\ drivers[p].pc = "fetch"
    /\ \E o \in DriverOutcomes :
         \/ /\ o.stop
            /\ drivers' = [drivers EXCEPT ![p].pc = "done"]
            /\ UNCHANGED <<store, companies>>
         \/ /\ ~o.stop
            /\ store' = store_result(RowAt(p).company_name,
                                     clean_kvk_number(RowAt(p).kvk_number), o.value)
            /\ companies' = insert_or_replace(RowAt(p).company_name,
                                              clean_kvk_number(RowAt(p).kvk_number), o.value)
            /\ drivers' = [drivers EXCEPT ![p].pc = "check", ![p].idx = @ + 1]
    /\ UNCHANGED <<Params, pc, idx, current_index, stats, stop_cause, emitted,
                   cur, prev, report, outcomes, call, written, acquired,
                   validation, phase2, Browser, Pool>>

\* the rows of process p are used up
DriverEnd(p) ==
    /\ pc = "drivers"
    /\ batch' = batch
    /\ drivers[p].pc = "check" /\ drivers[p].idx = Len(work)
    /\ drivers' = [drivers EXCEPT ![p].pc = "done"]
    /\ UNCHANGED <<Params, pc, idx, current_index, stats, stop_cause, emitted, store,
                   companies, cur, prev, report, outcomes, call, written, acquired,
                   validation, phase2, Browser, Pool>>

InitDrivers ==
    \E w \in WorkSeqs, rf \in BOOLEAN, rs \in BOOLEAN :
        \E st \in StoresOf(w) :
            /\ work = w /\ start_index = NoIndex /\ end_index = NoIndex
            /\ retry_failed = rf /\ retry_small = rs /\ run = 1
            /\ pc = "drivers" /\ idx = 0 /\ current_index = 0
            /\ stats = NewStats(Len(w))
            /\ stop_cause = "none" /\ emitted = 0
            /\ store = st /\ companies = TableOf(st)
            /\ report = "pending" /\ outcomes = <<>> /\ call = NoCall /\ written = <<>>
            /\ NoClients
            /\ session = "live" /\ session_proxy = NoProxy /\ page = PageBlank
            /\ proxies = {} /\ last_update = 0 /\ now = 0
            /\ cur = NoItem
            /\ prev = NoPrev

NextDrivers == \E p \in Procs : DriverCheck(p) \/ DriverStore(p) \/ DriverEnd(p)

SpecDrivers == InitDrivers /\ [][NextDrivers]_vars

\* C38: a row whose stored outcome is Positive is not changed by any step of a
\* driver, also not when two driver processes work on the same store.
C38_PositiveStable ==
    [][\A k \in DOMAIN store :
          store[k].has_branches = 1 => (k \in DOMAIN store' /\ store'[k] = store[k])]_vars

------------------------------------------------------------------------------
(* The result of a call of check_company_size (SpecFetcher).                 *)

\* how the last pass of the call ended; "no_pass" when the loop made none
LastOutcome == IF outcomes = <<>> THEN "no_pass" ELSE outcomes[Len(outcomes)]

\* C39: a call raises RateLimitException exactly when its last pass ended
\* rate-limited (by the rate-limit check or the title check) or found no proxy, it
\* returns the verdict when its last pass classified the page, and None in every
\* other case; a call with max_retries = 0 makes no pass (no fetch, no proxy
\* acquisition, the browser and the pool as they were) and returns None.
C39_LastAttemptDecides ==
    /\ [](Finished =>
            /\ report = "rate_limit" <=>
                   LastOutcome \in {"rate_limited", "redirected", "no_proxy"}
            /\ LastOutcome \in {"true", "false"} => report = LastOutcome
            /\ LastOutcome \notin {"rate_limited", "redirected", "no_proxy", "true", "false"}
                   => report = "none"
            /\ call.max_retries = 0 => (outcomes = <<>> /\ report = "none"))
    /\ [][(call'.n = call.n + 1 /\ call'.max_retries = 0) =>
             /\ Fetches(outcomes') = 0 /\ Acquires(outcomes') = 0
             /\ UNCHANGED <<Browser, Pool>>]_vars

\* the first pass was rate-limited, the session replacement of the second failed:
\* the call returned None although a pass ended rate-limited
C39_RateLimitedThenSetupFailed ==
    /\ Finished
    /\ call.max_retries = DefaultMaxRetries
    /\ outcomes = <<"rate_limited", "setup_failed">>
    /\ report = "none"

------------------------------------------------------------------------------
(* Phase 2 batches: phase2_processor.py run_batch_processing, called any     *)
(* number of times on the same two databases.                                *)

\* the values of max_companies
Limits == {NoLimit} \cup 0..MaxLimit

\* ORDER BY company_name
NameOrder == <<RowA.company_name, RowB.company_name>>

\* the selected companies as the list the query returns
OrderByName(S) ==
    LET names == SelectSeq(NameOrder, LAMBDA n : \E c \in S : c[1] = n)
    IN  [i \in 1..Len(names) |-> CHOOSE c \in S : c[1] = names[i]]

\* "if max_companies: unprocessed_companies = unprocessed_companies[:max_companies]"
Take(list, max_companies) ==
    IF max_companies # NoLimit /\ max_companies # 0
    THEN SubSeq(list, 1, Min(max_companies, Len(list)))
    ELSE list

\* run_batch_processing(max_companies) up to its loop; with nothing to process it
\* returns at once
StartBatch ==
    /\ pc = "batch"
    /\ ~batch.running /\ batch.n < MaxBatches
    /\ \E m \in Limits :
         LET list == Take(OrderByName(get_unprocessed_companies), m)
         IN  batch' = [n |-> batch.n + 1, max_companies |-> m,
                       unprocessed_companies |-> list, idx |-> 0,
                       attempted |-> <<>>, running |-> list # <<>>]
    /\ UNCHANGED <<Params, Batch, Browser, Pool, report, outcomes, call, written,
                   acquired, validation, phase2, drivers>>

\* one pass of the loop: process_company on the next company of the list. The
\* client gives any response; a write to the Phase 2 database may raise, and then
\* the handler of process_company records a failed attempt, or that write raises
\* too and nothing is recorded
BatchAttempt ==
    /\ pc = "batch"
    /\ batch.running /\ batch.idx < Len(batch.unprocessed_companies)
    /\ LET c == batch.unprocessed_companies[batch.idx + 1]
           called(response, result) ==
               [phase2 EXCEPT !.calls = @ + 1, !.kvk = c[2], !.response = response,
                              !.was_processed = has_been_processed(c[2]),
                              !.result = result]
       IN  /\ \E response \in Responses :
                \/ /\ response \in {"low", "high"}
                   /\ phase2' = [called(response, TRUE) EXCEPT
                                    !.company_details = store_company_details(c[2], c[1], response)]
                \/ phase2' = [called(response, FALSE) EXCEPT
                                 !.failed_attempts = store_failed_attempt(c[2], c[1])]
                \/ phase2' = called(response, FALSE)
           /\ batch' = [batch EXCEPT !.idx = @ + 1, !.attempted = Append(@, c[2])]
    /\ UNCHANGED <<Params, Batch, Browser, Pool, report, outcomes, call, written,
                   acquired, validation, drivers>>

\* the list is used up: the statistics are logged
EndBatch ==
    /\ pc = "batch"
    /\ batch.running /\ batch.idx = Len(batch.unprocessed_companies)
    /\ batch' = [batch EXCEPT !.running = FALSE]
    /\ UNCHANGED <<Params, Batch, Browser, Pool, report, outcomes, call, written,
                   acquired, validation, phase2, drivers>>

\* Phase2Processor on any companies table Phase 1 has left and empty Phase 2 tables
InitBatch ==
    /\ work = <<RowA, RowB>> /\ start_index = NoIndex /\ end_index = NoIndex
    /\ retry_failed = FALSE /\ retry_small = FALSE /\ run = 0
    /\ pc = "batch" /\ idx = 0 /\ current_index = 0
    /\ stats = NewStats(0)
    /\ stop_cause = "none" /\ emitted = 0
    /\ \E st \in StoresOf(<<RowA, RowB>>) : store = st /\ companies = TableOf(st)
    /\ report = "pending" /\ outcomes = <<>> /\ call = NoCall /\ written = <<>>
    /\ NoClients
    /\ session = "live" /\ session_proxy = NoProxy /\ page = PageBlank
    /\ proxies = {} /\ last_update = 0 /\ now = 0
    /\ cur = NoItem
    /\ prev = NoPrev

NextBatch == StartBatch \/ BatchAttempt \/ EndBatch

SpecBatch == InitBatch /\ [][NextBatch]_vars

\* C40: a batch attempts no company twice and, when max_companies is given, at
\* most max_companies companies; a company with a row in the details table or in
\* the failed-attempts table is attempted by no batch.
C40_BatchBounded ==
    /\ [](batch.max_companies # NoLimit => Len(batch.attempted) <= batch.max_companies)
    /\ [](\A i, j \in 1..Len(batch.attempted) :
             batch.attempted[i] = batch.attempted[j] => i = j)
    /\ [][batch'.idx = batch.idx + 1 =>
             ~has_been_processed(batch'.attempted[Len(batch'.attempted)])]_vars


====
